---- MODULE Spec2Model ----
(***************************************************************************)
(* Model of maestral's DropboxClient (src/src/maestral/client.py).         *)
(*                                                                         *)
(* Each group of operations has its own specification over the shared     *)
(* state:                                                                  *)
(*   SpecBatch    - make_dir_batch and remove_batch (async batch jobs)     *)
(*   SpecRemoveBatch - remove_batch alone                                  *)
(*   SpecDownload - download                                               *)
(*   SpecUpload   - upload (single-shot and upload session)                *)
(*   SpecPoll     - wait_for_remote_changes (long poll with backoff)       *)
(*   SpecQuery    - get_metadata and create_shared_link                    *)
(*   SpecList     - list_folder, list_folder_iterator, list_shared_links   *)
(*   SpecFlatten  - flatten_results on arbitrary lists of results          *)
(*   SpecLink     - get_auth_url, link, unlink and the account wrappers    *)
(*   SpecThreads  - threads reading the dbx / dbx_base properties          *)
(* The Dropbox server and the transport are the environment: every answer  *)
(* the SDK can deliver at a call site is a nondeterministic choice.        *)
(***************************************************************************)
EXTENDS Integers, Sequences, FiniteSets, TLC

\* ---- bounds of the model ------------------------------------------------
MaxPaths == 3
MaxDepth == 3
MaxBatchArg == 3
MaxPages == 3
MaxResults == 2
MaxTokens == 2
MaxThreads == 3
MaxInstances == 4
MaxClock == 240
MaxMinutes == 2

\* ---- helpers imported by client.py from maestral.utils -------------------

\* utils.clamp(n, minn, maxn)
clamp(n, minn, maxn) ==
    IF n < minn THEN minn ELSE IF n > maxn THEN maxn ELSE n

\* utils.chunks(lst, n): consecutive slices of at most n items
RECURSIVE chunks(_, _)
chunks(lst, n) ==
    IF Len(lst) = 0 THEN << >>
    ELSE IF Len(lst) <= n THEN << lst >>
    ELSE << SubSeq(lst, 1, n) >> \o chunks(SubSeq(lst, n + 1, Len(lst)), n)

\* Python 3 round(batch_size / 2): round half to even
HalfBatch(batch_size) ==
    LET q == batch_size \div 2 IN
    IF batch_size % 2 = 0 THEN q
    ELSE IF q % 2 = 0 THEN q ELSE q + 1

\* check_interval = round(len(chunk) / 100, 1), in milliseconds
\* (len/100 rounded to one decimal; below 0.05 the result is 0.0)
check_interval(len) ==
    LET tenths == (len + 5) \div 10 IN tenths * 100

\* ---- the state ----------------------------------------------------------
VARIABLES
    stack,        \* call stack of make_dir_batch / remove_batch frames
    batchIn,      \* arguments of the running / last top-level batch call
    batchOut,     \* its outcome: none, returned (with the list) or raised
    lastSleep,    \* duration (ms) of the last time.sleep of the batch call
    jobFailures   \* reasons of the Failed job answers seen by the batch call

batchVars == << stack, batchIn, batchOut, lastSleep, jobFailures >>

VARIABLES
    dl,           \* the running download call: position, attempt, stream
    localFile,    \* what is at local_path
    localBefore,  \* what was at local_path when download was called
    dlOut,        \* outcome of the running / last download call
    sync_event    \* the SyncEvent passed to download / upload (or None)

dlVars == << dl, localFile, localBefore, dlOut >>

VARIABLES
    up,           \* the running upload call: position in the code, the file
    upLog,        \* the requests it has sent, with the transport's answers
    upOut         \* outcome of the running / last upload call

upVars == << up, upLog, upOut >>

VARIABLES
    now,            \* the clock read by time.time(), in seconds
    backoff_until,  \* self._backoff_until
    poll,           \* the running wait_for_remote_changes call
    pollOut,        \* outcome of the running / last call
    lastReq,        \* time of the last long-poll request, -1 before
    prevResp        \* time and backoff of the last long-poll response

pollVars == << now, backoff_until, poll, pollOut, lastReq, prevResp >>

VARIABLES
    query,          \* the running get_metadata / create_shared_link call
    queryReqs,      \* the requests it has sent, with the answers
    queryOut        \* outcome of the running / last call

queryVars == << query, queryReqs, queryOut >>

VARIABLES
    listing,        \* the running pagination call
    yielded,        \* the pages it has obtained so far, in order
    listReqs,       \* the requests it has sent, with the answers
    listOut         \* outcome of the running / last pagination call

listVars == << listing, yielded, listReqs, listOut >>

VARIABLES
    results,            \* the argument of flatten_results
    results_flattened   \* what it returned

flattenVars == << results, results_flattened >>

VARIABLES
    client,         \* the DropboxClient: auth flow, credential store, state
                    \* file, SDK instances, cached account, namespace
    lastOp          \* the last linking / API operation and its outcome

linkVars == << client, lastOp >>

VARIABLES
    thr,            \* the threads reading client.dbx / client.dbx_base
    lock,           \* the holder of self._lock (NoThread: free)
    constructions,  \* how often an SDK instance was constructed
    lastWrite       \* the last assignment to shared client fields: by
                    \* which thread, and who held self._lock then

threadVars == << thr, lock, constructions, lastWrite >>

VARIABLES
    pollers         \* the threads calling wait_for_remote_changes on one
                    \* client: where each is, when its sleep ends

pollerVars == << pollers >>

VARIABLES
    instances,        \* the DropboxClient instances made by clone
    closed_sessions   \* the requests sessions that were closed

instanceVars == << instances, closed_sessions >>

VARIABLES
    notifier,       \* the MaestralDesktopNotifier: the configured
                    \* notification level and self._snooze
    clock,          \* the clock read by the notifier's time.time(), seconds
    lastSnoozed,    \* the last assignment to snoozed: when, how many minutes
    lastNotify      \* the last notifier operation; for notify, the level of
                    \* the message and whether it was sent to the desktop

notifyVars == << notifier, clock, lastSnoozed, lastNotify >>

\* the variables each group of operations leaves alone
transferVars == << batchVars, dlVars, upVars, pollVars, sync_event >>
nonBatchVars ==
    << dlVars, upVars, pollVars, sync_event, queryVars, listVars,
       flattenVars, linkVars, threadVars, pollerVars, instanceVars,
       notifyVars >>
nonDownloadVars ==
    << batchVars, upVars, pollVars, queryVars, listVars, flattenVars,
       linkVars, threadVars, pollerVars, instanceVars, notifyVars >>
nonUploadVars ==
    << batchVars, dlVars, pollVars, queryVars, listVars, flattenVars,
       linkVars, threadVars, pollerVars, instanceVars, notifyVars >>
nonPollVars ==
    << batchVars, dlVars, upVars, sync_event, queryVars, listVars,
       flattenVars, linkVars, threadVars, pollerVars, instanceVars,
       notifyVars >>
nonQueryVars ==
    << transferVars, listVars, flattenVars, linkVars, threadVars,
       pollerVars, instanceVars, notifyVars >>
nonListVars ==
    << transferVars, queryVars, flattenVars, linkVars, threadVars,
       pollerVars, instanceVars, notifyVars >>
nonFlattenVars ==
    << transferVars, queryVars, listVars, linkVars, threadVars, pollerVars,
       instanceVars, notifyVars >>
nonLinkVars ==
    << transferVars, queryVars, listVars, flattenVars, threadVars,
       pollerVars, instanceVars, notifyVars >>
nonThreadVars ==
    << transferVars, queryVars, listVars, flattenVars, lastOp, pollerVars,
       instanceVars, notifyVars >>
nonPollerVars ==
    << batchVars, dlVars, upVars, sync_event, queryVars, listVars,
       flattenVars, linkVars, threadVars, instanceVars, notifyVars >>
nonInstanceVars ==
    << transferVars, queryVars, listVars, flattenVars, linkVars, threadVars,
       pollerVars, notifyVars >>
nonNotifyVars ==
    << transferVars, queryVars, listVars, flattenVars, linkVars, threadVars,
       pollerVars, instanceVars >>

Paths == 1 .. MaxPaths
NoRev == 0

\* all lists of distinct paths with at most MaxPaths items
PathLists ==
    UNION { { s \in [1 .. n -> Paths] :
                \A i, j \in 1 .. n : i # j => s[i] # s[j] } : n \in 0 .. MaxPaths }
BatchSizeArgs == 0 .. MaxBatchArg \cup { 1001 }

\* path of an input item: a str for make_dir_batch, e[0] for remove_batch
ItemPath(op, item) == IF op = "remove" THEN item[1] ELSE item

\* The entries a batch endpoint reports for a chunk: one entry per argument,
\* in argument order, each a success (metadata) or a failure.
ServerEntries(op, chunk, oks) ==
    [ i \in 1 .. Len(chunk) |->
        [ success |-> oks[i], path |-> ItemPath(op, chunk[i]) ] ]

\* the final loop of both batch methods:
\*   for i, entry in enumerate(entries): ... dbx_path=dbx_paths[i]
ConvertEntries(op, entries, inputs) ==
    [ i \in 1 .. Len(entries) |->
        IF entries[i].success
        THEN [ tag |-> "md", about |-> entries[i].path,
               dbx_path |-> entries[i].path ]
        ELSE [ tag |-> "err", about |-> entries[i].path,
               dbx_path |-> ItemPath(op, inputs[i]) ] ]

NewFrame(op, inputs, bs) ==
    [ op |-> op, inputs |-> inputs, batch_size |-> clamp(bs, 1, 1000),
      ci |-> 1, entries |-> << >>, result_list |-> << >>, pc |-> "loop" ]

Top == stack[Len(stack)]
TopChunks == chunks(Top.inputs, Top.batch_size)
TopChunk == TopChunks[Top.ci]
SetTop(f) == [ stack EXCEPT ![Len(stack)] = f ]

InitBatch ==
    /\ stack = << >>
    /\ batchIn = [ op |-> "none", inputs |-> << >>, batch_size |-> 0 ]
    /\ batchOut = [ status |-> "none", res |-> << >>, err |-> "none", at |-> 0 ]
    /\ lastSleep = 0
    /\ jobFailures = { }

\* make_dir_batch(dbx_paths, batch_size): lines 979-982
make_dir_batch_call ==
    /\ stack = << >>
    /\ \E L \in PathLists, bs \in BatchSizeArgs :
        /\ stack' = << NewFrame("mkdir", L, bs) >>
        /\ batchIn' = [ op |-> "mkdir", inputs |-> L, batch_size |-> bs ]
    /\ batchOut' = [ status |-> "none", res |-> << >>, err |-> "none",
                     at |-> 0 ]
    /\ lastSleep' = 0
    /\ jobFailures' = { }
    /\ UNCHANGED nonBatchVars

\* remove_batch(entries, batch_size): lines 861-864
remove_batch_call ==
    /\ stack = << >>
    /\ \E L \in PathLists, bs \in BatchSizeArgs :
        LET ents == [ i \in 1 .. Len(L) |-> << L[i], NoRev >> ] IN
        /\ stack' = << NewFrame("remove", ents, bs) >>
        /\ batchIn' = [ op |-> "remove", inputs |-> ents, batch_size |-> bs ]
    /\ batchOut' = [ status |-> "none", res |-> << >>, err |-> "none",
                     at |-> 0 ]
    /\ lastSleep' = 0
    /\ jobFailures' = { }
    /\ UNCHANGED nonBatchVars

\* an exception leaves every frame of the call; `at` records the index of
\* the chunk the outermost frame was working on
Raise(err) ==
    /\ stack' = << >>
    /\ batchOut' = [ status |-> "raised", res |-> << >>, err |-> err,
                     at |-> stack[1].ci ]

\* the batch request of the current chunk is answered Complete(entries)
batch_submit_complete ==
    /\ stack # << >> /\ Top.pc = "loop" /\ Top.ci <= Len(TopChunks)
    /\ \E oks \in [1 .. Len(TopChunk) -> BOOLEAN] :
        stack' = SetTop([ Top EXCEPT
            !.entries = @ \o ServerEntries(Top.op, TopChunk, oks),
            !.ci = @ + 1 ])
    /\ UNCHANGED << batchIn, batchOut, lastSleep, jobFailures >>
    /\ UNCHANGED nonBatchVars

\* the batch request is answered AsyncJob(id): sleep 0.5 s before the check
batch_submit_async ==
    /\ stack # << >> /\ Top.pc = "loop" /\ Top.ci <= Len(TopChunks)
    /\ stack' = SetTop([ Top EXCEPT !.pc = "check" ])
    /\ lastSleep' = 500
    /\ UNCHANGED << batchIn, batchOut, jobFailures >>
    /\ UNCHANGED nonBatchVars

\* the batch request or a job check fails in the transport / API
batch_request_error ==
    /\ stack # << >> /\ Top.pc \in { "loop", "check" }
    /\ Top.pc = "loop" => Top.ci <= Len(TopChunks)
    /\ Raise("MaestralApiError")
    /\ UNCHANGED << batchIn, lastSleep, jobFailures >>
    /\ UNCHANGED nonBatchVars

\* ..._batch_check answers InProgress: sleep check_interval, check again
batch_check_in_progress ==
    /\ stack # << >> /\ Top.pc = "check"
    /\ lastSleep' = check_interval(Len(TopChunk))
    /\ UNCHANGED << stack, batchIn, batchOut, jobFailures >>
    /\ UNCHANGED nonBatchVars

\* ..._batch_check answers Complete(entries)
batch_check_complete ==
    /\ stack # << >> /\ Top.pc = "check"
    /\ \E oks \in [1 .. Len(TopChunk) -> BOOLEAN] :
        stack' = SetTop([ Top EXCEPT
            !.entries = @ \o ServerEntries(Top.op, TopChunk, oks),
            !.ci = @ + 1, !.pc = "loop" ])
    /\ UNCHANGED << batchIn, batchOut, lastSleep, jobFailures >>
    /\ UNCHANGED nonBatchVars

\* files_create_folder_batch_check answers Failed(too_many_files):
\* recurse over this chunk with half the batch size (lines 1009-1015)
make_dir_batch_too_many_files ==
    /\ stack # << >> /\ Top.pc = "check" /\ Top.op = "mkdir"
    /\ Len(stack) < MaxDepth
    /\ stack' = Append(SetTop([ Top EXCEPT !.pc = "await" ]),
                       NewFrame("mkdir", TopChunk, HalfBatch(Top.batch_size)))
    /\ jobFailures' = jobFailures \cup { "too_many_files" }
    /\ UNCHANGED << batchIn, batchOut, lastSleep >>
    /\ UNCHANGED nonBatchVars

\* a variant that treats the failure like any other Failed answer and goes
\* on with the next chunk
remove_batch_too_many_write_operations_skips ==
    /\ stack # << >> /\ Top.pc = "check" /\ Top.op = "remove"
    /\ stack' = SetTop([ Top EXCEPT !.ci = @ + 1, !.pc = "loop" ])
    /\ jobFailures' = jobFailures \cup { "too_many_write_operations" }
    /\ UNCHANGED << batchIn, batchOut, lastSleep >>
    /\ UNCHANGED nonBatchVars

\* files_delete_batch_check answers Failed(too_many_write_operations):
\* raise SyncError (lines 898-906)
remove_batch_too_many_write_operations ==
    /\ stack # << >> /\ Top.pc = "check" /\ Top.op = "remove"
    /\ Raise("SyncError: Could not delete items")
    /\ jobFailures' = jobFailures \cup { "too_many_write_operations" }
    /\ UNCHANGED << batchIn, lastSleep >>
    /\ UNCHANGED nonBatchVars

\* the job check answers Failed(other): neither branch of the method
\* matches, the loop goes on with the next chunk
batch_check_failed_other ==
    /\ stack # << >> /\ Top.pc = "check"
    /\ stack' = SetTop([ Top EXCEPT !.ci = @ + 1, !.pc = "loop" ])
    /\ jobFailures' = jobFailures \cup { "other" }
    /\ UNCHANGED << batchIn, batchOut, lastSleep >>
    /\ UNCHANGED nonBatchVars

\* what the extend of the caller does with the list a recursive call returns
ExtendWithRecursion(result_list, res_list) == result_list \o res_list

\* all chunks done: convert the entries, return result_list
\* (lines 908-921 and 1017-1030); a recursive call returns into line 1015
batch_return ==
    /\ stack # << >> /\ Top.pc = "loop" /\ Top.ci > Len(TopChunks)
    /\ LET ret == Top.result_list
                  \o ConvertEntries(Top.op, Top.entries, Top.inputs) IN
       IF Len(stack) = 1
       THEN /\ stack' = << >>
            /\ batchOut' = [ status |-> "returned", res |-> ret,
                             err |-> "none", at |-> Top.ci ]
       ELSE LET caller == stack[Len(stack) - 1] IN
            /\ stack' = [ SubSeq(stack, 1, Len(stack) - 1)
                            EXCEPT ![Len(stack) - 1] =
                  [ caller EXCEPT
                      !.result_list = ExtendWithRecursion(@, ret),
                      !.ci = @ + 1, !.pc = "loop" ] ]
            /\ UNCHANGED batchOut
    /\ UNCHANGED << batchIn, lastSleep, jobFailures >>
    /\ UNCHANGED nonBatchVars

\* ---- download (lines 534-598) -------------------------------------------

MaxStream == 2

\* (variant: one attempt more)
MAX_TRANSFER_RETRIES_plus_one == 3 + 1

\* class attribute MAX_TRANSFER_RETRIES
MAX_TRANSFER_RETRIES == 3

\* errorhandling.retry_on_error(error_cls, max_retries): whether the wrapped
\* call is invoked again after its attempt number `tries` raised `err`
retry_on_error(err, error_cls, tries, max_retries) ==
    err = error_cls /\ tries < max_retries

\* utils.path.delete(path): nothing is left at the path
delete(file) == [ kind |-> "absent", bytes |-> 0, intact |-> TRUE ]

Absent == [ kind |-> "absent", bytes |-> 0, intact |-> TRUE ]
\* a regular file that is there before a download is called
OldFile == [ kind |-> "file", bytes |-> MaxStream, intact |-> TRUE ]
Symlink == [ kind |-> "symlink", bytes |-> 0, intact |-> TRUE ]

\* open(local_path, "wb", opener=opener_no_symlink): creates or truncates
open_wb(file) == [ kind |-> "file", bytes |-> 0, intact |-> FALSE ]

\* wrapped_f.write(c): one more chunk in the file
write_chunk(file) == [ file EXCEPT !.bytes = @ + 1 ]

\* md.content_hash != local_hash: delete(local_path), line 584
\* (variant: the file is left where it is)
after_hash_mismatch_keeps_file(file) == file

after_hash_mismatch(file) == delete(file)

NoEvent == [ present |-> FALSE, size |-> 0, completed |-> 0 ]
DlIdle == [ pc |-> "idle", tries |-> 0, size |-> 0, good |-> TRUE,
            written |-> 0, lastErr |-> "none" ]
NoOutcome == [ status |-> "none", err |-> "none" ]

\* (variant: the event is left as it is)
set_completed_skipped(ev, n) == ev

\* if sync_event: sync_event.completed = n
set_completed(ev, n) == IF ev.present THEN [ ev EXCEPT !.completed = n ] ELSE ev

IdleDownload ==
    /\ dl = DlIdle
    /\ localFile = Absent
    /\ localBefore = Absent
    /\ dlOut = NoOutcome

InitDownload ==
    /\ dl = DlIdle
    /\ localFile \in { Absent, OldFile, Symlink }
    /\ localBefore = localFile
    /\ dlOut = NoOutcome

\* download(dbx_path, local_path, sync_event) is called
download_call ==
    /\ dl.pc = "idle"
    /\ \E size \in 0 .. MaxStream, present \in BOOLEAN :
        /\ dl' = [ DlIdle EXCEPT !.pc = "metadata", !.tries = 1, !.size = size ]
        /\ sync_event' = [ present |-> present, size |-> size, completed |-> 0 ]
    /\ localBefore' = localFile
    /\ dlOut' = NoOutcome
    /\ UNCHANGED localFile
    /\ UNCHANGED nonDownloadVars

DownloadFails(err) ==
    /\ dl' = [ dl EXCEPT !.pc = "idle", !.lastErr = err ]
    /\ dlOut' = [ status |-> "raised", err |-> err ]

\* files_get_metadata answers with the metadata of a regular file (line 554)
download_get_metadata ==
    /\ dl.pc = "metadata"
    /\ dl' = [ dl EXCEPT !.pc = "download", !.lastErr = "none" ]
    /\ UNCHANGED << localFile, localBefore, dlOut, sync_event >>
    /\ UNCHANGED nonDownloadVars

\* the metadata describes a symlink: reproduce it locally (lines 556-562),
\* set the times and return
download_symlink ==
    /\ dl.pc = "metadata"
    /\ localFile' = Symlink
    /\ dl' = [ dl EXCEPT !.pc = "idle", !.lastErr = "none" ]
    /\ dlOut' = [ status |-> "returned", err |-> "none" ]
    /\ UNCHANGED << localBefore, sync_event >>
    /\ UNCHANGED nonDownloadVars

\* files_get_metadata or files_download fails (lines 554, 567)
download_request_error ==
    /\ dl.pc \in { "metadata", "download" }
    /\ DownloadFails("MaestralApiError")
    /\ UNCHANGED << localFile, localBefore, sync_event >>
    /\ UNCHANGED nonDownloadVars

\* files_download answers; local_path is a symlink, the opener refuses it
download_open_refused ==
    /\ dl.pc = "download"
    /\ localFile.kind = "symlink"
    /\ DownloadFails("MaestralApiError(OSError)")
    /\ UNCHANGED << localFile, localBefore, sync_event >>
    /\ UNCHANGED nonDownloadVars

\* files_download answers with a body whose hash matches (good) or not;
\* local_path is opened for writing (lines 567-573)
download_open ==
    /\ dl.pc = "download"
    /\ localFile.kind # "symlink"
    /\ \E good \in BOOLEAN :
        dl' = [ dl EXCEPT !.pc = "stream", !.good = good, !.written = 0 ]
    /\ localFile' = open_wb(localFile)
    /\ UNCHANGED << localBefore, dlOut, sync_event >>
    /\ UNCHANGED nonDownloadVars

\* one chunk of the body is written (lines 576-579)
download_write_chunk ==
    /\ dl.pc = "stream"
    /\ dl.written < dl.size
    /\ localFile' = write_chunk(localFile)
    /\ dl' = [ dl EXCEPT !.written = @ + 1 ]
    /\ sync_event' = set_completed(sync_event, dl.written + 1)
    /\ UNCHANGED << localBefore, dlOut >>
    /\ UNCHANGED nonDownloadVars

\* the transport fails in the middle of the body (iter_content raises)
download_stream_error ==
    /\ dl.pc = "stream"
    /\ dl.written < dl.size
    /\ DownloadFails("MaestralApiError")
    /\ UNCHANGED << localFile, localBefore, sync_event >>
    /\ UNCHANGED nonDownloadVars

\* end of the body, the hashes differ (lines 581-587), under the
\* retry_on_error(DataCorruptionError, MAX_TRANSFER_RETRIES) of line 534
download_hash_mismatch ==
    /\ dl.pc = "stream"
    /\ dl.written = dl.size
    /\ ~ dl.good
    /\ localFile' = after_hash_mismatch(localFile)
    /\ IF retry_on_error("DataCorruptionError", "DataCorruptionError",
                         dl.tries, MAX_TRANSFER_RETRIES)
       THEN /\ dl' = [ dl EXCEPT !.pc = "metadata", !.tries = @ + 1,
                                 !.lastErr = "DataCorruptionError" ]
            /\ UNCHANGED dlOut
       ELSE DownloadFails("DataCorruptionError")
    /\ UNCHANGED << localBefore, sync_event >>
    /\ UNCHANGED nonDownloadVars

\* end of the body, the hashes agree: set the times, return md
download_return ==
    /\ dl.pc = "stream"
    /\ dl.written = dl.size
    /\ dl.good
    /\ localFile' = [ localFile EXCEPT !.intact = TRUE ]
    /\ dl' = [ dl EXCEPT !.pc = "idle" ]
    /\ dlOut' = [ status |-> "returned", err |-> "none" ]
    /\ UNCHANGED << localBefore, sync_event >>
    /\ UNCHANGED nonDownloadVars

\* ---- upload (lines 600-830) ---------------------------------------------

MaxChunks == 4

FileSizes == { 0, 99999, 100000, 100001, 250000, 300000, 350000, 450000,
               150000000, 150000001, 300000001 }
ChunkSizeArgs == { 50000, 100000, 150000000, 200000000 }
SessionIds == { 1, 2 }

\* chunk_size = clamp(chunk_size, 10**5, 150 * 10**6), line 628
clamp_chunk_size(chunk_size) == clamp(chunk_size, 100000, 150000000)

\* (variant: strict comparison)
single_shot_strict(st_size, chunk_size) == st_size < chunk_size

\* if stat.st_size <= chunk_size, line 637
single_shot(st_size, chunk_size) == st_size <= chunk_size

\* number of requests of an upload session for a file
ChunkCount(st_size, chunk_size) == (st_size + chunk_size - 1) \div chunk_size

\* len(f.read(chunk_size)) at file position pos
read_len(st_size, pos, chunk_size) ==
    IF st_size - pos < chunk_size
    THEN (IF st_size - pos < 0 THEN 0 ELSE st_size - pos)
    ELSE chunk_size

\* errorhandling.convert_api_errors: the error that leaves the scope for a
\* failed request is a MaestralApiError, not an SDK exception
convert_api_errors(answer) ==
    [ cls |-> IF answer = "corrupt" THEN "DataCorruptionError"
              ELSE IF answer = "incorrect_offset" THEN "SyncError"
              ELSE "MaestralApiError",
      is_dropbox_exception |-> FALSE,
      incorrect_offset |-> answer = "incorrect_offset" ]

\* (variant: the file stays where the read left it)
seek_after_error_stays(exc, initial_offset, pos, correct_offset) == pos

\* the except clauses of the append and finish helpers (lines 755-768,
\* 810-825): the file position after a failed request
seek_after_error(exc, initial_offset, pos, correct_offset) ==
    IF exc.is_dropbox_exception
    THEN IF exc.incorrect_offset THEN correct_offset ELSE pos
    ELSE initial_offset

\* (variant: a remainder of exactly one chunk is appended, too)
more_to_append_or_equal(st_size, tell, chunk_size) ==
    st_size - tell >= chunk_size

\* while stat.st_size - f.tell() > chunk_size, line 658
more_to_append(st_size, tell, chunk_size) == st_size - tell > chunk_size

\* (variant: the position after the read)
cursor_offset_after_read(initial_offset, len) == initial_offset + len

\* UploadSessionCursor(session_id=session_id, offset=initial_offset)
cursor_offset(initial_offset, len) == initial_offset

UpIdle == [ pc |-> "idle", st_size |-> 0, arg |-> 0, chunk_size |-> 0,
            fpos |-> 0, session_id |-> 0, tries |-> 0 ]
NoUpOutcome == [ status |-> "none", err |-> "none", size |-> 0 ]

IdleUpload ==
    /\ up = UpIdle
    /\ upLog = << >>
    /\ upOut = NoUpOutcome

\* upload(local_path, dbx_path, chunk_size, ..., sync_event): lines 628-652
upload_call ==
    /\ up.pc = "idle"
    /\ \E st_size \in FileSizes, arg \in ChunkSizeArgs, present \in BOOLEAN :
        LET chunk_size == clamp_chunk_size(arg) IN
        /\ ChunkCount(st_size, chunk_size) <= MaxChunks
        /\ up' = [ UpIdle EXCEPT
                     !.pc = IF single_shot(st_size, chunk_size)
                            THEN "single" ELSE "start",
                     !.st_size = st_size, !.arg = arg,
                     !.chunk_size = chunk_size, !.tries = 1 ]
        /\ sync_event' = [ present |-> present, size |-> st_size,
                           completed |-> 0 ]
    /\ upLog' = << >>
    /\ upOut' = NoUpOutcome
    /\ UNCHANGED nonUploadVars

UploadFails(err, pos) ==
    /\ up' = [ up EXCEPT !.pc = "idle", !.fpos = pos ]
    /\ upOut' = [ status |-> "raised", err |-> err, size |-> 0 ]

\* what a failed attempt of a helper under
\* retry_on_error(DataCorruptionError, MAX_TRANSFER_RETRIES) leads to
AfterFailedAttempt(exc, pos) ==
    IF retry_on_error(exc.cls, "DataCorruptionError", up.tries,
                      MAX_TRANSFER_RETRIES)
    THEN /\ up' = [ up EXCEPT !.tries = @ + 1, !.fpos = pos ]
         /\ UNCHANGED upOut
    ELSE UploadFails(exc.cls, pos)

Request(kind, sid, offset, tell, len, answer, correct_offset) ==
    [ kind |-> kind, session_id |-> sid, offset |-> offset, tell |-> tell,
      len |-> len, answer |-> answer,
      correct_offset |-> IF answer = "incorrect_offset"
                         THEN correct_offset ELSE 0 ]

\* one attempt of _upload_helper (lines 677-703)
upload_helper ==
    /\ up.pc = "single"
    /\ \E answer \in { "ok", "corrupt", "other" } :
        /\ upLog' = Append(upLog,
              Request("upload", 0, 0, 0, up.st_size, answer, 0))
        /\ IF answer = "ok"
           THEN /\ sync_event' = set_completed(sync_event, up.st_size)
                /\ up' = [ up EXCEPT !.pc = "idle" ]
                /\ upOut' = [ status |-> "returned", err |-> "none",
                              size |-> up.st_size ]
           ELSE /\ AfterFailedAttempt(convert_api_errors(answer), 0)
                /\ UNCHANGED sync_event
    /\ UNCHANGED nonUploadVars

\* one attempt of _upload_session_start_helper (lines 706-730)
upload_session_start ==
    /\ up.pc = "start"
    /\ LET initial_offset == up.fpos
           len == read_len(up.st_size, up.fpos, up.chunk_size)
       IN \E answer \in { "ok", "corrupt", "other" }, sid \in SessionIds :
        /\ upLog' = Append(upLog,
              Request("start", IF answer = "ok" THEN sid ELSE 0,
                      0, initial_offset, len, answer, 0))
        /\ IF answer = "ok"
           THEN /\ sync_event' = set_completed(sync_event, initial_offset + len)
                /\ up' = [ up EXCEPT !.pc = "loop", !.session_id = sid,
                                     !.fpos = initial_offset + len,
                                     !.tries = 1 ]
                /\ UNCHANGED upOut
           ELSE /\ AfterFailedAttempt(convert_api_errors(answer),
                                      initial_offset)
                /\ UNCHANGED sync_event
    /\ UNCHANGED nonUploadVars

\* the offsets a server may report as the correct one when it rejects a
\* request for its offset
CorrectOffsets(initial_offset, len) ==
    { 0, initial_offset + len } \ { initial_offset }

\* one attempt of _upload_session_append_helper (lines 733-771), called
\* while stat.st_size - f.tell() > chunk_size (line 658)
upload_session_append ==
    /\ up.pc = "loop"
    /\ more_to_append(up.st_size, up.fpos, up.chunk_size)
    /\ LET initial_offset == up.fpos
           len == read_len(up.st_size, up.fpos, up.chunk_size)
       IN \E answer \in { "ok", "corrupt", "incorrect_offset", "other" },
             correct_offset \in CorrectOffsets(initial_offset, len) :
        /\ upLog' = Append(upLog,
              Request("append", up.session_id,
                      cursor_offset(initial_offset, len),
                      initial_offset, len, answer, correct_offset))
        /\ IF answer = "ok"
           THEN /\ sync_event' = set_completed(sync_event, initial_offset + len)
                /\ up' = [ up EXCEPT !.fpos = initial_offset + len,
                                     !.tries = 1 ]
                /\ UNCHANGED upOut
           ELSE /\ AfterFailedAttempt(convert_api_errors(answer),
                    seek_after_error(convert_api_errors(answer),
                        initial_offset, initial_offset + len, correct_offset))
                /\ UNCHANGED sync_event
    /\ UNCHANGED nonUploadVars

\* one attempt of _upload_session_finish_helper (lines 774-830), called
\* when the loop of line 658 is left
upload_session_finish ==
    /\ up.pc = "loop"
    /\ ~ more_to_append(up.st_size, up.fpos, up.chunk_size)
    /\ LET initial_offset == up.fpos
           len == read_len(up.st_size, up.fpos, up.chunk_size)
       IN \E answer \in { "ok", "corrupt", "incorrect_offset", "other" },
             correct_offset \in CorrectOffsets(initial_offset, len) :
        /\ upLog' = Append(upLog,
              Request("finish", up.session_id,
                      cursor_offset(initial_offset, len),
                      initial_offset, len, answer, correct_offset))
        /\ IF answer = "ok"
           THEN /\ sync_event' = set_completed(sync_event, sync_event.size)
                /\ up' = [ up EXCEPT !.pc = "idle",
                                     !.fpos = initial_offset + len ]
                /\ upOut' = [ status |-> "returned", err |-> "none",
                              size |-> initial_offset + len ]
           ELSE /\ AfterFailedAttempt(convert_api_errors(answer),
                    seek_after_error(convert_api_errors(answer),
                        initial_offset, initial_offset + len, correct_offset))
                /\ UNCHANGED sync_event
    /\ UNCHANGED nonUploadVars

\* ---- wait_for_remote_changes (lines 1195-1223) ---------------------------

MaxTime == 12
MaxBackoff == 2

Timeouts == { 0, 29, 30, 40, 480, 481 }

\* (variant: strict lower bound)
valid_timeout_strict(timeout) == 30 < timeout /\ timeout <= 480

\* if not 30 <= timeout <= 480: raise ValueError, line 1206
valid_timeout(timeout) == 30 <= timeout /\ timeout <= 480

\* time_to_backoff = max(self._backoff_until - time.time(), 0), line 1210
time_to_backoff(until, t) == IF until - t > 0 THEN until - t ELSE 0

\* (variant: without the extra five seconds)
backoff_deadline_no_margin(t, backoff) ==
    IF backoff # 0 THEN t + backoff ELSE 0

\* lines 1217-1221: res.backoff is None (0 here) or a number of seconds
backoff_deadline(t, backoff) ==
    IF backoff # 0 THEN t + backoff + 5 ELSE 0

PollIdle == [ pc |-> "idle", timeout |-> 0, time_to_backoff |-> 0,
              wake |-> 0, backoff |-> 0 ]
NoResp == [ time |-> -1, backoff |-> 0 ]

IdlePoll ==
    /\ now = 0
    /\ backoff_until = 0
    /\ poll = PollIdle
    /\ pollOut = NoOutcome
    /\ lastReq = -1
    /\ prevResp = NoResp

\* time passes
tick ==
    /\ now < MaxTime
    /\ now' = now + 1
    /\ UNCHANGED << backoff_until, poll, pollOut, lastReq, prevResp >>
    /\ UNCHANGED nonPollVars

\* wait_for_remote_changes(last_cursor, timeout) is called with a timeout
\* outside [30, 480]: ValueError (lines 1206-1207)
wait_for_remote_changes_bad_timeout ==
    /\ poll.pc = "idle"
    /\ \E timeout \in Timeouts :
        /\ ~ valid_timeout(timeout)
        /\ poll' = [ PollIdle EXCEPT !.timeout = timeout ]
    /\ pollOut' = [ status |-> "raised", err |-> "ValueError" ]
    /\ UNCHANGED << now, backoff_until, lastReq, prevResp >>
    /\ UNCHANGED nonPollVars

\* ... with a valid timeout: compute time_to_backoff and sleep
\* (lines 1210-1211)
wait_for_remote_changes_call ==
    /\ poll.pc = "idle"
    /\ \E timeout \in Timeouts :
        /\ valid_timeout(timeout)
        /\ poll' = [ PollIdle EXCEPT
              !.pc = "sleep", !.timeout = timeout,
              !.time_to_backoff = time_to_backoff(backoff_until, now),
              !.wake = now + time_to_backoff(backoff_until, now) ]
    /\ pollOut' = NoOutcome
    /\ UNCHANGED << now, backoff_until, lastReq, prevResp >>
    /\ UNCHANGED nonPollVars

\* the sleep is over: files_list_folder_longpoll is sent (line 1214)
longpoll_request ==
    /\ poll.pc = "sleep"
    /\ now >= poll.wake
    /\ poll' = [ poll EXCEPT !.pc = "longpoll" ]
    /\ lastReq' = now
    /\ UNCHANGED << now, backoff_until, pollOut, prevResp >>
    /\ UNCHANGED nonPollVars

\* the long poll fails: the error leaves the method
longpoll_error ==
    /\ poll.pc = "longpoll"
    /\ poll' = [ poll EXCEPT !.pc = "idle" ]
    /\ pollOut' = [ status |-> "raised", err |-> "MaestralApiError" ]
    /\ UNCHANGED << now, backoff_until, lastReq, prevResp >>
    /\ UNCHANGED nonPollVars

\* the long poll is answered, with or without a backoff
longpoll_response ==
    /\ poll.pc = "longpoll"
    /\ \E backoff \in 0 .. MaxBackoff :
        /\ poll' = [ poll EXCEPT !.pc = "record", !.backoff = backoff ]
        /\ prevResp' = [ time |-> now, backoff |-> backoff ]
    /\ UNCHANGED << now, backoff_until, pollOut, lastReq >>
    /\ UNCHANGED nonPollVars

\* lines 1217-1223: keep the deadline (or clear it), return res.changes
record_backoff ==
    /\ poll.pc = "record"
    /\ backoff_until' = backoff_deadline(now, poll.backoff)
    /\ poll' = [ poll EXCEPT !.pc = "idle" ]
    /\ pollOut' = [ status |-> "returned", err |-> "none" ]
    /\ UNCHANGED << now, lastReq, prevResp >>
    /\ UNCHANGED nonPollVars

\* ---- get_metadata and create_shared_link --------------------------------

\* Python's None
None == "None"

QueryPaths == { "/a", "/A b", "" }
Visibilities == { "public", "team_only", "password" }
Passwords == { None, "", "pw" }

\* a datetime: wall-clock hour, whether it has a tzinfo and, if so, the
\* utcoffset of the tzinfo in hours
Datetimes ==
    { dt \in [ wall : { 10 }, aware : BOOLEAN, utcoffset : { 0, 2 } ] :
        ~ dt.aware => dt.utcoffset = 0 }
\* expires=None
NoExpires == [ none |-> TRUE ]
ExpiresArgs == { NoExpires } \cup Datetimes

\* `not password`: None and the empty string are falsy
not_password(password) == password \in { None, "" }

\* lines 1298-1299 (variant: the argument is passed on as given)
link_password_as_given(visibility, password) == password

\* lines 1298-1299: if not visibility.is_password(): password = None
link_password(visibility, password) ==
    IF visibility # "password" THEN None ELSE password

\* datetime.astimezone(timezone.utc) of an aware datetime
astimezone_utc(expires) ==
    [ wall |-> expires.wall - expires.utcoffset, aware |-> TRUE,
      utcoffset |-> 0 ]

\* lines 1302-1305: has_timezone is falsy for a naive datetime and for a
\* zero utcoffset; the datetime astimezone returns is not bound to a name,
\* so `expires` is what it was
expires_for_settings(expires) ==
    IF expires = NoExpires THEN NoExpires
    ELSE LET has_timezone == expires.aware /\ expires.utcoffset # 0
             converted ==
                 IF has_timezone THEN astimezone_utc(expires) ELSE expires
         IN expires

\* lines 1307-1312
SharedLinkSettings(visibility, password, expires) ==
    [ requested_visibility |-> visibility,
      link_password |-> password,
      expires |-> expires ]

\* the failures of files/get_metadata and of
\* sharing/create_shared_link_with_settings as the SDK raises them
LookupFailures ==
    { "path/not_found", "path/malformed_path", "path/restricted_content",
      "auth/invalid_access_token", "connection_error" }

\* errorhandling.dropbox_to_maestral_error, as convert_api_errors applies
\* it: the class of the MaestralApiError raised for an SDK exception
dropbox_to_maestral_error(exc) ==
    CASE exc = "path/not_found" -> "NotFoundError"
      [] exc = "path/malformed_path" -> "PathError"
      [] exc = "path/restricted_content" -> "RestrictedContentError"
      [] exc = "auth/invalid_access_token" -> "DropboxAuthError"
      [] exc = "connection_error" -> "ConnectionError"
      [] exc = "read_timeout" -> "ConnectionError"
      [] exc = "path_root/invalid_root" -> "PathRootError"
      [] OTHER -> "MaestralApiError"

\* line 501 (variant: only NotFoundError is caught)
get_metadata_excepts_not_found_only == { "NotFoundError" }

\* line 501: except (NotFoundError, PathError)
get_metadata_excepts == { "NotFoundError", "PathError" }

NoSettings ==
    [ requested_visibility |-> None, link_password |-> None,
      expires |-> NoExpires ]
QueryIdle ==
    [ pc |-> "idle", op |-> "none", dbx_path |-> "", include_deleted |-> FALSE,
      visibility |-> "public", password |-> None, expires |-> NoExpires ]
NoQueryOutcome == [ status |-> "none", value |-> None, err |-> "none" ]

IdleQuery ==
    /\ query = QueryIdle
    /\ queryReqs = << >>
    /\ queryOut = NoQueryOutcome

\* get_metadata(dbx_path, include_deleted): lines 483-496
get_metadata_call ==
    /\ query.pc = "idle"
    /\ \E p \in QueryPaths, incl \in BOOLEAN :
        query' = [ QueryIdle EXCEPT !.pc = "request", !.op = "get_metadata",
                                    !.dbx_path = p, !.include_deleted = incl ]
    /\ queryReqs' = << >>
    /\ queryOut' = NoQueryOutcome
    /\ UNCHANGED nonQueryVars

\* files_get_metadata answers with the metadata of the item (lines 497-500)
get_metadata_found ==
    /\ query.pc = "request" /\ query.op = "get_metadata"
    /\ \E md \in { "FileMetadata", "FolderMetadata", "DeletedMetadata" } :
        /\ md = "DeletedMetadata" => query.include_deleted
        /\ queryReqs' = Append(queryReqs,
               [ endpoint |-> "files_get_metadata", arg |-> query.dbx_path,
                 settings |-> NoSettings, answer |-> md, error |-> "none" ])
        /\ queryOut' = [ status |-> "returned", value |-> md, err |-> "none" ]
    /\ query' = [ query EXCEPT !.pc = "idle" ]
    /\ UNCHANGED nonQueryVars

\* files_get_metadata fails: convert_api_errors raises the converted error,
\* the except clause of line 501 turns some of them into None
get_metadata_error ==
    /\ query.pc = "request" /\ query.op = "get_metadata"
    /\ \E exc \in LookupFailures :
        LET err == dropbox_to_maestral_error(exc) IN
        /\ queryReqs' = Append(queryReqs,
               [ endpoint |-> "files_get_metadata", arg |-> query.dbx_path,
                 settings |-> NoSettings, answer |-> "raised", error |-> err ])
        /\ queryOut' =
               IF err \in get_metadata_excepts
               THEN [ status |-> "returned", value |-> None, err |-> "none" ]
               ELSE [ status |-> "raised", value |-> None, err |-> err ]
    /\ query' = [ query EXCEPT !.pc = "idle" ]
    /\ UNCHANGED nonQueryVars

\* create_shared_link with visibility password and a falsy password:
\* lines 1292-1296
create_shared_link_no_password ==
    /\ query.pc = "idle"
    /\ \E p \in QueryPaths, pw \in Passwords, e \in ExpiresArgs :
        /\ not_password(pw)
        /\ query' = [ QueryIdle EXCEPT !.op = "create_shared_link",
                          !.dbx_path = p, !.visibility = "password",
                          !.password = pw, !.expires = e ]
    /\ queryReqs' = << >>
    /\ queryOut' = [ status |-> "raised", value |-> None,
                     err |-> "MaestralApiError: Invalid shared link setting" ]
    /\ UNCHANGED nonQueryVars

\* create_shared_link with acceptable arguments: lines 1292-1312
create_shared_link_call ==
    /\ query.pc = "idle"
    /\ \E p \in QueryPaths, v \in Visibilities, pw \in Passwords,
          e \in ExpiresArgs :
        /\ ~ (v = "password" /\ not_password(pw))
        /\ query' = [ QueryIdle EXCEPT !.pc = "request",
                          !.op = "create_shared_link",
                          !.dbx_path = p, !.visibility = v,
                          !.password = pw, !.expires = e ]
    /\ queryReqs' = << >>
    /\ queryOut' = NoQueryOutcome
    /\ UNCHANGED nonQueryVars

\* sharing_create_shared_link_with_settings is called and answers
\* (lines 1314-1317)
create_shared_link_request ==
    /\ query.pc = "request" /\ query.op = "create_shared_link"
    /\ LET settings == SharedLinkSettings(
               query.visibility,
               link_password(query.visibility, query.password),
               expires_for_settings(query.expires)) IN
       \E answer \in { "SharedLinkMetadata" } \cup LookupFailures :
        LET err == IF answer \in LookupFailures
                   THEN dropbox_to_maestral_error(answer) ELSE "none" IN
        /\ queryReqs' = Append(queryReqs,
               [ endpoint |-> "sharing_create_shared_link_with_settings",
                 arg |-> query.dbx_path, settings |-> settings,
                 answer |-> IF err = "none" THEN answer ELSE "raised",
                 error |-> err ])
        /\ queryOut' =
               IF err = "none"
               THEN [ status |-> "returned", value |-> answer, err |-> "none" ]
               ELSE [ status |-> "raised", value |-> None, err |-> err ]
    /\ query' = [ query EXCEPT !.pc = "idle" ]
    /\ UNCHANGED nonQueryVars

\* ---- pagination: list_folder, list_folder_iterator, list_shared_links ----

\* class attribute MAX_LIST_FOLDER_RETRIES (line 96)
MAX_LIST_FOLDER_RETRIES == 3

\* the entries a page can hold
PageItems == { << >>, << 1 >>, << 2 >>, << 1, 2 >> }

\* a pagination result: its class, the list attribute (entries / links),
\* its cursor and has_more
Page(cls, items, cursor, has_more) ==
    [ cls |-> cls, items |-> items, cursor |-> cursor, has_more |-> has_more ]
NoPage == Page("NoneType", << >>, 0, FALSE)

\* the class of the results of an operation and the attribute it flattens
ResultClass(op) ==
    IF op = "list_shared_links" THEN "ListSharedLinksResult"
    ELSE "ListFolderResult"
AttributeName(cls) ==
    IF cls = "ListSharedLinksResult" THEN "links" ELSE "entries"

\* getattr(result, attribute_name)
getattr(result, attribute_name) ==
    IF attribute_name = AttributeName(result.cls) THEN result.items
    ELSE << "AttributeError" >>

\* lines 1365-1368: all_entries += getattr(result, attribute_name)
RECURSIVE all_entries(_, _)
all_entries(pages, attribute_name) ==
    IF pages = << >> THEN << >>
    ELSE all_entries(SubSeq(pages, 1, Len(pages) - 1), attribute_name)
         \o getattr(pages[Len(pages)], attribute_name)

\* (variant: the cursor of the first result)
flatten_results_first_cursor(pages, attribute_name) ==
    Page(pages[1].cls, all_entries(pages, attribute_name),
         pages[1].cursor, FALSE)

\* flatten_results(results, attribute_name): lines 1352-1379
flatten_results(pages, attribute_name) ==
    Page(pages[1].cls, all_entries(pages, attribute_name),
         pages[Len(pages)].cursor, FALSE)

\* (variant: the cursor of the first page is sent again)
continue_cursor_of_first(pages) == pages[1].cursor

\* line 1187: the cursor passed on is the one of the page yielded last
continue_cursor(pages) == pages[Len(pages)].cursor

ListIdle == [ pc |-> "idle", op |-> "none", tries |-> 1 ]
NoListOutcome == [ status |-> "none", value |-> NoPage, err |-> "none" ]

IdleList ==
    /\ listing = ListIdle
    /\ yielded = << >>
    /\ listReqs = << >>
    /\ listOut = NoListOutcome

\* list_folder, list_folder_iterator or list_remote_changes_iterator
\* (consumed to their end) or list_shared_links is called
list_call ==
    /\ listing.pc = "idle"
    /\ \E op \in { "list_folder", "list_folder_iterator",
                   "list_remote_changes_iterator", "list_shared_links" } :
        listing' = [ pc |-> "first", op |-> op, tries |-> 1 ]
    /\ yielded' = << >>
    /\ listReqs' = << >>
    /\ listOut' = NoListOutcome
    /\ UNCHANGED nonListVars

ListRequest(endpoint, cursor, answer) ==
    [ endpoint |-> endpoint, cursor |-> cursor, answer |-> answer,
      after |-> Len(yielded) ]

\* the page the server answers: any entries, a fresh cursor, and more to
\* come or not (no more after MaxPages pages)
ServerPages(cls) ==
    { Page(cls, items, 100 + Len(yielded) + 1, more) :
        items \in PageItems,
        more \in { m \in BOOLEAN : m => Len(yielded) + 1 < MaxPages } }

FirstEndpoint(op) ==
    IF op = "list_shared_links" THEN "sharing_list_shared_links"
    ELSE IF op = "list_remote_changes_iterator"
         THEN "files_list_folder_continue"
    ELSE "files_list_folder"
ContinueEndpoint(op) ==
    IF op = "list_shared_links" THEN "sharing_list_shared_links"
    ELSE "files_list_folder_continue"

\* the first request is answered with a page, which is yielded
\* (lines 1176-1185, 1258-1260, 1342-1344)
list_first_page ==
    /\ listing.pc = "first"
    /\ \E res \in ServerPages(ResultClass(listing.op)) :
        /\ yielded' = << res >>
        /\ listReqs' = Append(listReqs,
               ListRequest(FirstEndpoint(listing.op), 0, "page"))
    /\ listing' = [ listing EXCEPT !.pc = "loop" ]
    /\ UNCHANGED listOut
    /\ UNCHANGED nonListVars

ListFails(err) ==
    /\ listing' = [ listing EXCEPT !.pc = "idle" ]
    /\ listOut' = [ status |-> "raised", value |-> NoPage, err |-> err ]

\* the first request fails; convert_api_errors raises the converted error
list_first_error ==
    /\ listing.pc = "first"
    /\ \E exc \in LookupFailures :
        /\ listReqs' = Append(listReqs,
               ListRequest(FirstEndpoint(listing.op), 0, exc))
        /\ ListFails(dropbox_to_maestral_error(exc))
    /\ UNCHANGED yielded
    /\ UNCHANGED nonListVars

\* while res.has_more: the continue request with the cursor of the page
\* before is answered with the next page (lines 1186-1189, 1261-1262,
\* 1346-1348)
list_continue_page ==
    /\ listing.pc = "loop"
    /\ yielded[Len(yielded)].has_more
    /\ \E res \in ServerPages(ResultClass(listing.op)) :
        /\ yielded' = Append(yielded, res)
        /\ listReqs' = Append(listReqs,
               ListRequest(ContinueEndpoint(listing.op),
                           continue_cursor(yielded), "page"))
    /\ listing' = [ listing EXCEPT !.tries = 1 ]
    /\ UNCHANGED listOut
    /\ UNCHANGED nonListVars

\* whether the continue requests of an operation go through
\* _list_folder_continue_helper (line 1188); list_remote_changes_iterator
\* (line 1262) and list_shared_links (line 1347) call the SDK directly
continues_with_helper(op) == op \in { "list_folder", "list_folder_iterator" }

\* files_list_folder_continue times out: _list_folder_continue_helper is
\* under retry_on_error(ReadTimeout, MAX_LIST_FOLDER_RETRIES) (lines
\* 1191-1193)
list_continue_read_timeout ==
    /\ listing.pc = "loop"
    /\ yielded[Len(yielded)].has_more
    /\ listReqs' = Append(listReqs,
           ListRequest(ContinueEndpoint(listing.op),
                       continue_cursor(yielded), "read_timeout"))
    /\ IF /\ continues_with_helper(listing.op)
          /\ retry_on_error("ReadTimeout", "ReadTimeout", listing.tries,
                            MAX_LIST_FOLDER_RETRIES)
       THEN /\ listing' = [ listing EXCEPT !.tries = @ + 1 ]
            /\ UNCHANGED listOut
       ELSE ListFails(dropbox_to_maestral_error("read_timeout"))
    /\ UNCHANGED yielded
    /\ UNCHANGED nonListVars

\* a continue request fails with another error, which propagates
list_continue_error ==
    /\ listing.pc = "loop"
    /\ yielded[Len(yielded)].has_more
    /\ \E exc \in LookupFailures :
        /\ listReqs' = Append(listReqs,
               ListRequest(ContinueEndpoint(listing.op),
                           continue_cursor(yielded), exc))
        /\ ListFails(dropbox_to_maestral_error(exc))
    /\ UNCHANGED yielded
    /\ UNCHANGED nonListVars

\* the page yielded last has has_more false: the iterator is exhausted;
\* list_folder and list_shared_links return the flattened pages, the
\* iterators return nothing
\* (lines 1139, 1350)
list_return ==
    /\ listing.pc = "loop"
    /\ ~ yielded[Len(yielded)].has_more
    /\ listing' = [ listing EXCEPT !.pc = "idle" ]
    /\ listOut' =
         [ status |-> "returned", err |-> "none",
           value |->
             IF listing.op \in { "list_folder_iterator",
                                 "list_remote_changes_iterator" } THEN NoPage
             ELSE flatten_results(yielded,
                      AttributeName(ResultClass(listing.op))) ]
    /\ UNCHANGED << yielded, listReqs >>
    /\ UNCHANGED nonListVars

\* ---- flatten_results on arbitrary lists of results ----------------------

\* all non-empty lists of at most MaxPages results of one class
FlattenPages(cls) ==
    { Page(cls, items, cursor, more) :
        items \in { << >>, << 1 >>, << 2 >> }, cursor \in { 101, 102 },
        more \in BOOLEAN }
ResultLists ==
    UNION { [ 1 .. n -> FlattenPages(cls) ] :
              n \in 1 .. MaxResults,
              cls \in { "ListFolderResult", "ListSharedLinksResult" } }

IdleFlatten ==
    /\ results = << >>
    /\ results_flattened = NoPage

InitFlatten ==
    /\ results \in ResultLists
    /\ results_flattened = NoPage

\* flatten_results(results, attribute_name) is applied to the list
flatten_results_call ==
    /\ results # << >>
    /\ results_flattened = NoPage
    /\ results_flattened' =
           flatten_results(results, AttributeName(results[1].cls))
    /\ UNCHANGED results
    /\ UNCHANGED nonFlattenVars

\* ---- linking: get_auth_url, link, unlink, _init_sdk, update_path_root ----

\* the refresh tokens the token endpoint can issue; 0 stands for no token
Tokens == 1 .. MaxTokens
NoToken == 0

\* cred_storage: what the CredentialStorage holds
NoCred == [ account_id |-> "", token |-> NoToken, token_type |-> None ]

\* cred_storage.save_creds(account_id, token, token_type)
\* (variant: the token is stored as a legacy access token)
save_creds_as_legacy(account_id, token, token_type) ==
    [ account_id |-> account_id, token |-> token, token_type |-> "Legacy" ]

\* cred_storage.save_creds(account_id, token, token_type): lines 194-196
save_creds(account_id, token, token_type) ==
    [ account_id |-> account_id, token |-> token, token_type |-> token_type ]

\* an SDK instance: the token it authenticates with and its path root
\* header ("" for none); NoHandle is the None of an unset attribute
Dropbox(token, token_type, path_root) ==
    [ token |-> token, token_type |-> token_type, path_root |-> path_root ]
NoHandle == Dropbox(NoToken, None, "")

\* dbx_base.with_path_root(PathRoot.root(nsid))
with_path_root(dbx_base, nsid) == [ dbx_base EXCEPT !.path_root = nsid ]

\* the "account" section of the MaestralState
EmptyState ==
    [ path_root_nsid |-> "", path_root_type |-> "", home_path |-> "",
      email |-> "" ]

\* what users_get_current_account can answer: the account with its home
\* namespace and the root_info of a user root, a team root, or a root of
\* a type the client does not know
UserRootInfo ==
    [ kind |-> "user", root_namespace_id |-> "ns_home", home_path |-> "" ]
TeamRootInfo ==
    [ kind |-> "team", root_namespace_id |-> "ns_team",
      home_path |-> "/me" ]
OtherRootInfo ==
    [ kind |-> "other", root_namespace_id |-> "ns_other", home_path |-> "" ]
FullAccounts ==
    { [ account_id |-> "dbid:me", email |-> "me@example.org",
        home_namespace_id |-> "ns_home", root_info |-> ri ] :
        ri \in { UserRootInfo, TeamRootInfo, OtherRootInfo } }
NoAccount ==
    [ account_id |-> "", email |-> "", home_namespace_id |-> "",
      root_info |-> [ kind |-> "", root_namespace_id |-> "",
                      home_path |-> "" ] ]

\* __init__ (lines 100-122) on a given credential store and state file
NewClient(cred, state) ==
    [ auth_flow |-> FALSE,
      cred_storage |-> cred,
      state |-> state,
      dbx |-> NoHandle,
      dbx_base |-> NoHandle,
      cached_account_info |-> NoAccount,
      namespace_id |-> state.path_root_nsid,
      is_team_space |-> state.path_root_type = "team" ]

\* the `linked` property: lines 144-152
linked(c) == c.cred_storage.token # NoToken

\* _init_sdk raises NotLinkedError: lines 231-237
init_sdk_raises(c, token) ==
    /\ c.dbx = NoHandle
    /\ token = NoToken
    /\ c.cred_storage.token = NoToken

\* _init_sdk(token, token_type) when it does not raise: lines 231-270
init_sdk(c, token, token_type) ==
    IF c.dbx # NoHandle THEN c
    ELSE LET tok == IF token # NoToken THEN token
                    ELSE c.cred_storage.token
             typ == IF token_type # None THEN token_type
                    ELSE c.cred_storage.token_type
             base == Dropbox(tok, typ, "")
         IN [ c EXCEPT
                !.dbx_base = base,
                !.dbx = IF c.namespace_id # ""
                        THEN with_path_root(base, c.namespace_id)
                        ELSE base ]

\* the dbx_base property (lines 126-133): the client after the access
dbx_base_raises(c) == c.dbx_base = NoHandle /\ init_sdk_raises(c, NoToken)
with_dbx_base(c) ==
    IF c.dbx_base = NoHandle THEN init_sdk(c, NoToken, None) ELSE c

\* the dbx property (lines 135-142)
dbx_raises(c) == c.dbx = NoHandle /\ init_sdk_raises(c, NoToken)
with_dbx(c) ==
    IF c.dbx = NoHandle THEN init_sdk(c, NoToken, None) ELSE c

\* a request sent through an SDK instance, and whether a credential was
\* in the store when it went out
SdkRequest(endpoint, handle, c) ==
    [ endpoint |-> endpoint, token |-> handle.token,
      path_root |-> handle.path_root, linked |-> linked(c) ]

\* (variant: the home namespace replaces a namespace already known)
account_info_received_resets_namespace(c, res) ==
    [ c EXCEPT !.state.email = res.email,
               !.namespace_id = res.home_namespace_id,
               !.state.path_root_nsid = res.home_namespace_id,
               !.cached_account_info = res ]

\* get_account_info() once users_get_current_account has answered `res`:
\* lines 427-449
account_info_received(c, res) ==
    LET c1 == [ c EXCEPT !.state.email = res.email ]
        c2 == IF c1.namespace_id = ""
              THEN [ c1 EXCEPT
                       !.namespace_id = res.home_namespace_id,
                       !.state.path_root_nsid = res.home_namespace_id ]
              ELSE c1
    IN [ c2 EXCEPT !.cached_account_info = res ]

\* update_path_root: the namespace handle is rebuilt (lines 382-385)
path_root_handle_rebuilt(c, root_info) ==
    [ with_dbx_base(c) EXCEPT
        !.dbx = with_path_root(with_dbx_base(c).dbx_base,
                               root_info.root_namespace_id) ]

\* update_path_root: the root type is known (lines 387-407)
path_root_recorded(c, root_info) ==
    [ c EXCEPT
        !.namespace_id = root_info.root_namespace_id,
        !.is_team_space = root_info.kind = "team",
        !.state.path_root_nsid = root_info.root_namespace_id,
        !.state.path_root_type = root_info.kind,
        !.state.home_path = root_info.home_path ]

\* the failures of a request sent through an SDK instance
RequestFailures ==
    { "connection_error", "auth/invalid_access_token" }

\* the failures of a request to a path-scoped endpoint, sent with a path
\* root header: the namespace of the header can also be out of date
PathScopedFailures == RequestFailures \cup { "path_root/invalid_root" }

\* the client as it was when an operation was called
Before(c) == c

\* the record of the last operation: its outcome ("none" while no
\* operation was called), the requests it sent, the client before it,
\* and what the code exchange of link returned
Op(op, outcome, requests, c, res) ==
    [ op |-> op, outcome |-> outcome, requests |-> requests,
      before |-> Before(c), res |-> res ]
NoRes == [ account_id |-> "", refresh_token |-> NoToken ]

\* the stores a client is constructed on: nothing stored, a credential
\* without a recorded path root, or the credential and state a linked
\* client left behind
StoredConfigs ==
    { [ cred |-> NoCred, state |-> EmptyState ],
      [ cred |-> save_creds("dbid:me", 1, "Offline"),
        state |-> EmptyState ],
      [ cred |-> save_creds("dbid:me", 1, "Offline"),
        state |-> [ EmptyState EXCEPT !.path_root_nsid = "ns_home",
                                      !.path_root_type = "user" ] ] }

IdleLink ==
    /\ client = NewClient(save_creds("dbid:me", 1, "Offline"),
                          [ EmptyState EXCEPT !.path_root_nsid = "ns_home",
                                              !.path_root_type = "user" ])
    /\ lastOp = Op("none", "none", << >>, client, NoRes)

InitLink ==
    /\ \E cfg \in StoredConfigs : client = NewClient(cfg.cred, cfg.state)
    /\ lastOp = Op("none", "none", << >>, client, NoRes)

\* get_auth_url(): lines 154-167
get_auth_url ==
    /\ client' = [ client EXCEPT !.auth_flow = TRUE ]
    /\ lastOp' = Op("get_auth_url", "returned", << >>, client, NoRes)
    /\ UNCHANGED nonLinkVars

\* the code exchange of auth_flow.finish(token): a request to the token
\* endpoint, not through an SDK instance
ExchangeRequest(c) ==
    [ endpoint |-> "oauth2/token", token |-> NoToken, path_root |-> "",
      linked |-> linked(c) ]

\* what auth_flow.finish returns
OAuth2FlowNoRedirectResult(token) ==
    [ account_id |-> "dbid:me", refresh_token |-> token ]

\* link(token) without a started auth flow: lines 178-179
link_not_started ==
    /\ ~ client.auth_flow
    /\ lastOp' = Op("link", "RuntimeError", << >>, client, NoRes)
    /\ UNCHANGED client
    /\ UNCHANGED nonLinkVars

\* link(token), the exchange fails: return 1 for an HTTPError (invalid
\* code), 2 for a connection error (lines 181-186)
link_exchange_fails ==
    /\ client.auth_flow
    /\ \E exc \in { "http_error", "connection_error" } :
        lastOp' = Op("link", IF exc = "http_error" THEN "1" ELSE "2",
                     << ExchangeRequest(client) >>, client, NoRes)
    /\ UNCHANGED client
    /\ UNCHANGED nonLinkVars

\* link(token), the exchange succeeds, the account lookup of
\* update_path_root fails (lines 188-193). errorhandling is not under
\* src/: the error convert_api_errors raises for a connection failure may
\* or may not be one of CONNECTION_ERRORS, so link returns 2 or raises
link_lookup_fails ==
    /\ client.auth_flow
    /\ \E t \in Tokens, exc \in RequestFailures, caught \in BOOLEAN :
        LET c1 == with_dbx_base(init_sdk(client, t, "Offline")) IN
        /\ caught => exc = "connection_error"
        /\ client' = c1
        /\ lastOp' =
             Op("link",
                IF caught THEN "2" ELSE dropbox_to_maestral_error(exc),
                << ExchangeRequest(client),
                   SdkRequest("users_get_current_account", c1.dbx_base,
                              c1) >>,
                client, OAuth2FlowNoRedirectResult(t))
    /\ UNCHANGED nonLinkVars

\* link(token), the root namespace is of an unknown type: update_path_root
\* raises after it rebuilt the namespace handle (lines 382-398)
link_unknown_root_type ==
    /\ client.auth_flow
    /\ \E t \in Tokens, res \in FullAccounts :
        LET c1 == with_dbx_base(init_sdk(client, t, "Offline"))
            c2 == account_info_received(c1, res)
            c3 == path_root_handle_rebuilt(c2, res.root_info)
        IN
        /\ res.root_info.kind = "other"
        /\ client' = c3
        /\ lastOp' =
             Op("link", "MaestralApiError: Unknown root namespace type",
                << ExchangeRequest(client),
                   SdkRequest("users_get_current_account", c1.dbx_base,
                              c1) >>,
                client, OAuth2FlowNoRedirectResult(t))
    /\ UNCHANGED nonLinkVars

\* (variant: the auth flow stays usable after a successful link)
link_completed_keeps_flow(c, oauth) ==
    [ c EXCEPT
        !.cred_storage = save_creds(oauth.account_id, oauth.refresh_token,
                                    "Offline") ]

\* the end of link: the credential is saved, the auth flow is dropped
\* (lines 194-199)
link_completed(c, oauth) ==
    [ c EXCEPT
        !.cred_storage = save_creds(oauth.account_id, oauth.refresh_token,
                                    "Offline"),
        !.auth_flow = FALSE ]

\* link(token) succeeds: lines 181-200
link_succeeds ==
    /\ client.auth_flow
    /\ \E t \in Tokens, res \in FullAccounts :
        LET oauth == OAuth2FlowNoRedirectResult(t)
            c1 == with_dbx_base(init_sdk(client, t, "Offline"))
            c2 == account_info_received(c1, res)
            c3 == path_root_handle_rebuilt(c2, res.root_info)
            c4 == path_root_recorded(c3, res.root_info)
        IN
        /\ res.root_info.kind # "other"
        /\ client' = link_completed(c4, oauth)
        /\ lastOp' =
             Op("link", "0",
                << ExchangeRequest(client),
                   SdkRequest("users_get_current_account", c1.dbx_base,
                              c1) >>,
                client, oauth)
    /\ UNCHANGED nonLinkVars

\* unlink: the handles and the cached account info are dropped first
\* (lines 210-212)
handles_dropped(c) ==
    [ c EXCEPT !.dbx = NoHandle, !.dbx_base = NoHandle,
               !.cached_account_info = NoAccount ]

\* unlink() without a stored credential: the dbx_base access of line 215
\* raises NotLinkedError
unlink_not_linked ==
    /\ dbx_base_raises(handles_dropped(client))
    /\ client' = handles_dropped(client)
    /\ lastOp' = Op("unlink", "NotLinkedError", << >>, client, NoRes)
    /\ UNCHANGED nonLinkVars

\* unlink(), auth_token_revoke fails: the error leaves the method before
\* delete_creds of line 216
unlink_revoke_fails ==
    /\ ~ dbx_base_raises(handles_dropped(client))
    /\ \E exc \in RequestFailures :
        LET c1 == with_dbx_base(handles_dropped(client)) IN
        /\ client' = c1
        /\ lastOp' = Op("unlink", dropbox_to_maestral_error(exc),
                        << SdkRequest("auth_token_revoke", c1.dbx_base,
                                      c1) >>,
                        client, NoRes)
    /\ UNCHANGED nonLinkVars

\* unlink(), the token is revoked and the credential deleted
\* (lines 214-216)
unlink_succeeds ==
    /\ ~ dbx_base_raises(handles_dropped(client))
    /\ LET c1 == with_dbx_base(handles_dropped(client)) IN
        /\ client' = [ c1 EXCEPT !.cred_storage = NoCred ]
        /\ lastOp' = Op("unlink", "returned",
                        << SdkRequest("auth_token_revoke", c1.dbx_base,
                                      c1) >>,
                        client, NoRes)
    /\ UNCHANGED nonLinkVars

\* an SDK wrapper is called and the handle access raises NotLinkedError
\* before any request: get_metadata through dbx, get_account_info and
\* update_path_root through dbx_base
not_linked_call ==
    /\ \E op \in { "get_metadata", "get_account_info", "update_path_root" } :
        /\ IF op = "get_metadata" THEN dbx_raises(client)
           ELSE dbx_base_raises(client)
        /\ lastOp' = Op(op, "NotLinkedError", << >>, client, NoRes)
    /\ UNCHANGED client
    /\ UNCHANGED nonLinkVars

\* get_metadata (as any wrapper of a path-scoped endpoint): the request
\* goes out through self.dbx and is answered or fails (lines 496-502)
get_metadata_request ==
    /\ ~ dbx_raises(client)
    /\ LET c1 == with_dbx(client) IN
        /\ client' = c1
        /\ \E answer \in { "returned" } \cup PathScopedFailures :
            lastOp' =
              Op("get_metadata",
                 IF answer = "returned" THEN answer
                 ELSE dropbox_to_maestral_error(answer),
                 << SdkRequest("files_get_metadata", c1.dbx, c1) >>,
                 client, NoRes)
    /\ UNCHANGED nonLinkVars

\* get_account_info(): users_get_current_account answers (lines 419-449)
get_account_info_returns ==
    /\ ~ dbx_base_raises(client)
    /\ \E res \in FullAccounts :
        LET c1 == with_dbx_base(client) IN
        /\ client' = account_info_received(c1, res)
        /\ lastOp' =
             Op("get_account_info", "returned",
                << SdkRequest("users_get_current_account", c1.dbx_base,
                              c1) >>,
                client, NoRes)
    /\ UNCHANGED nonLinkVars

\* what users_get_account(dbid) answers: the account of somebody else, a
\* BasicAccount, which has no root_info
BasicAccounts ==
    { [ NoAccount EXCEPT !.account_id = "dbid:other",
                         !.email = "other@example.org" ] }

\* get_account_info(dbid) for a given account id: users_get_account answers
\* (lines 419-449). The state entries are skipped (line 427); the block of
\* lines 442-445 is not: with an empty _namespace_id it reads
\* res.root_info, which the answer does not have, and the call ends with
\* AttributeError; otherwise line 447 caches the answer
get_account_info_dbid_returns ==
    /\ ~ dbx_base_raises(client)
    /\ \E res \in BasicAccounts :
        LET c1 == with_dbx_base(client) IN
        /\ client' = IF c1.namespace_id = "" THEN c1
                     ELSE [ c1 EXCEPT !.cached_account_info = res ]
        /\ lastOp' =
             Op("get_account_info(dbid)",
                IF c1.namespace_id = "" THEN "AttributeError"
                ELSE "returned",
                << SdkRequest("users_get_account", c1.dbx_base, c1) >>,
                client, NoRes)
    /\ UNCHANGED nonLinkVars

\* get_account_info() or update_path_root(): the account request fails
account_request_fails ==
    /\ ~ dbx_base_raises(client)
    /\ \E op \in { "get_account_info", "update_path_root" },
          exc \in RequestFailures :
        LET c1 == with_dbx_base(client) IN
        /\ client' = c1
        /\ lastOp' =
             Op(op, dropbox_to_maestral_error(exc),
                << SdkRequest("users_get_current_account", c1.dbx_base,
                              c1) >>,
                client, NoRes)
    /\ UNCHANGED nonLinkVars

\* update_path_root() fetches the root info and switches to it, or raises
\* for an unknown root type (lines 374-407)
update_path_root_call ==
    /\ ~ dbx_base_raises(client)
    /\ \E res \in FullAccounts :
        LET c1 == with_dbx_base(client)
            c2 == account_info_received(c1, res)
            c3 == path_root_handle_rebuilt(c2, res.root_info)
        IN
        /\ client' = IF res.root_info.kind = "other" THEN c3
                     ELSE path_root_recorded(c3, res.root_info)
        /\ lastOp' =
             Op("update_path_root",
                IF res.root_info.kind = "other"
                THEN "MaestralApiError: Unknown root namespace type"
                ELSE "returned",
                << SdkRequest("users_get_current_account", c1.dbx_base,
                              c1) >>,
                client, NoRes)
    /\ UNCHANGED nonLinkVars

\* ---- concurrent use of the dbx / dbx_base properties ---------------------

Threads == 1 .. MaxThreads
NoThread == 0

ThreadIdle == [ pc |-> "idle", prop |-> "dbx", got |-> NoHandle ]

NoWrite == [ op |-> "none", by |-> NoThread, holder |-> NoThread ]

IdleThreads ==
    /\ thr = [ t \in Threads |-> ThreadIdle ]
    /\ lock = NoThread
    /\ constructions = 0
    /\ lastWrite = NoWrite

\* the attribute a property reads: self._dbx or self._dbx_base
attribute(c, prop) == IF prop = "dbx" THEN c.dbx ELSE c.dbx_base

\* line 233 (variant: the handle is not looked at again under the lock)
already_initialised_unchecked(c) == FALSE

\* line 233, under the lock: if self._dbx: return
already_initialised(c) == c.dbx # NoHandle

\* a thread reads client.dbx or client.dbx_base: `if not self._dbx:`
\* decides between calling _init_sdk and returning (lines 129-131,
\* 138-140)
property_get ==
    \E t \in Threads, prop \in { "dbx", "dbx_base" } :
        /\ thr[t].pc \in { "idle", "done", "raised" }
        /\ thr' = [ thr EXCEPT ![t] =
               [ pc |-> IF attribute(client, prop) = NoHandle
                        THEN "init_sdk" ELSE "return",
                 prop |-> prop, got |-> NoHandle ] ]
        /\ UNCHANGED << client, lock, constructions, lastWrite >>
        /\ UNCHANGED nonThreadVars

\* _init_sdk: `with self._lock:` is entered (line 231)
init_sdk_acquire ==
    \E t \in Threads :
        /\ thr[t].pc = "init_sdk"
        /\ lock = NoThread
        /\ lock' = t
        /\ thr' = [ thr EXCEPT ![t].pc = "locked" ]
        /\ UNCHANGED << client, constructions, lastWrite >>
        /\ UNCHANGED nonThreadVars

\* _init_sdk under the lock: return if the handle is there, raise
\* NotLinkedError without a token, else go on (lines 233-240)
init_sdk_check ==
    \E t \in Threads :
        /\ thr[t].pc = "locked"
        /\ IF already_initialised(client)
           THEN /\ thr' = [ thr EXCEPT ![t].pc = "return" ]
                /\ lock' = NoThread
           ELSE IF client.cred_storage.token = NoToken
           THEN /\ thr' = [ thr EXCEPT ![t].pc = "raised" ]
                /\ lock' = NoThread
           ELSE /\ thr' = [ thr EXCEPT ![t].pc = "build_dbx_base" ]
                /\ UNCHANGED << lock, lastWrite >>
        /\ UNCHANGED << client, constructions, lastWrite >>
        /\ UNCHANGED nonThreadVars

\* _init_sdk: self._dbx_base = Dropbox(...) (lines 242-261)
init_sdk_build_dbx_base ==
    \E t \in Threads :
        /\ thr[t].pc = "build_dbx_base"
        /\ client' = [ client EXCEPT !.dbx_base =
               Dropbox(client.cred_storage.token,
                       client.cred_storage.token_type, "") ]
        /\ constructions' = constructions + 1
        /\ thr' = [ thr EXCEPT ![t].pc = "build_dbx" ]
        /\ UNCHANGED << lock, lastWrite >>
        /\ UNCHANGED nonThreadVars

\* _init_sdk: self._dbx is set, the lock is released (lines 263-270)
init_sdk_build_dbx ==
    \E t \in Threads :
        /\ thr[t].pc = "build_dbx"
        /\ client' = [ client EXCEPT !.dbx =
               IF client.namespace_id # ""
               THEN with_path_root(client.dbx_base, client.namespace_id)
               ELSE client.dbx_base ]
        /\ lock' = NoThread
        /\ thr' = [ thr EXCEPT ![t].pc = "return" ]
        /\ UNCHANGED << constructions, lastWrite >>
        /\ UNCHANGED nonThreadVars

\* the property returns the attribute: `return self._dbx` (lines 132,
\* 141)
property_return ==
    \E t \in Threads :
        /\ thr[t].pc = "return"
        /\ thr' = [ thr EXCEPT ![t].pc = "done",
                               ![t].got = attribute(client, thr[t].prop) ]
        /\ UNCHANGED << client, lock, constructions, lastWrite >>
        /\ UNCHANGED nonThreadVars

\* a thread that was handed dbx_base completes get_account_info():
\* users_get_current_account answers and _namespace_id (when empty) and
\* _cached_account_info are assigned (lines 440-449); the method takes no
\* lock, the one of _init_sdk was released when the property returned
get_account_info_assigns ==
    \E t \in Threads, res \in FullAccounts :
        /\ thr[t].pc = "done" /\ thr[t].prop = "dbx_base"
        /\ client' = account_info_received(client, res)
        /\ lastWrite' = [ op |-> "get_account_info", by |-> t,
                          holder |-> lock ]
        /\ thr' = [ thr EXCEPT ![t] = ThreadIdle ]
        /\ UNCHANGED << lock, constructions >>
        /\ UNCHANGED nonThreadVars

\* ---- wait_for_remote_changes called from two threads ---------------------

\* the two threads that share the client
Pollers == { 1, 2 }

PollerIdle == [ pc |-> "idle", wake |-> 0, backoff |-> 0 ]

IdlePollers == pollers = [ t \in Pollers |-> PollerIdle ]

\* the deadline a response asks for: its time of arrival, its backoff and
\* the five seconds the client adds
RequestedDeadline(resp) ==
    IF resp.backoff > 0 THEN resp.time + resp.backoff + 5 ELSE 0

\* a thread calls wait_for_remote_changes with a valid timeout: it reads
\* self._backoff_until and the clock and goes to sleep (lines 1210-1211)
poller_call ==
    \E t \in Pollers :
        /\ pollers[t].pc = "idle"
        /\ pollers' = [ pollers EXCEPT ![t] =
               [ PollerIdle EXCEPT
                   !.pc = "sleep",
                   !.wake = now + time_to_backoff(backoff_until, now) ] ]
        /\ UNCHANGED << now, backoff_until, poll, pollOut, lastReq, prevResp >>
        /\ UNCHANGED nonPollerVars

\* its sleep is over: files_list_folder_longpoll is sent (line 1214)
poller_longpoll_request ==
    \E t \in Pollers :
        /\ pollers[t].pc = "sleep"
        /\ now >= pollers[t].wake
        /\ pollers' = [ pollers EXCEPT ![t].pc = "longpoll" ]
        /\ UNCHANGED << now, backoff_until, poll, pollOut, lastReq, prevResp >>
        /\ UNCHANGED nonPollerVars

\* its long poll fails: the error leaves the method
poller_longpoll_error ==
    \E t \in Pollers :
        /\ pollers[t].pc = "longpoll"
        /\ pollers' = [ pollers EXCEPT ![t] = PollerIdle ]
        /\ UNCHANGED << now, backoff_until, poll, pollOut, lastReq, prevResp >>
        /\ UNCHANGED nonPollerVars

\* its long poll is answered, with or without a backoff; prevResp keeps the
\* response whose requested deadline is the latest
poller_longpoll_response ==
    \E t \in Pollers, backoff \in 0 .. MaxBackoff :
        LET resp == [ time |-> now, backoff |-> backoff ] IN
        /\ pollers[t].pc = "longpoll"
        /\ pollers' = [ pollers EXCEPT ![t].pc = "record",
                                       ![t].backoff = backoff ]
        /\ prevResp' = IF RequestedDeadline(resp) >= RequestedDeadline(prevResp)
                          /\ backoff > 0
                       THEN resp ELSE prevResp
        /\ UNCHANGED << now, backoff_until, poll, pollOut, lastReq >>
        /\ UNCHANGED nonPollerVars

\* lines 1217-1223: it assigns self._backoff_until and returns
poller_record_backoff ==
    \E t \in Pollers :
        /\ pollers[t].pc = "record"
        /\ backoff_until' = backoff_deadline(now, pollers[t].backoff)
        /\ pollers' = [ pollers EXCEPT ![t] = PollerIdle ]
        /\ UNCHANGED << now, poll, pollOut, lastReq, prevResp >>
        /\ UNCHANGED nonPollerVars

\* ---- session management: close, clone, clone_with_new_session ------------

\* the client instances that can exist: the first one and its clones
Instances == 1 .. MaxInstances

\* an instance: whether it was constructed, the requests session it holds
\* in _session (the session created for instance i is session i), whether
\* its SDK instances are built (on that session, lines 246-260 and 335-339),
\* and whether close was called on it
NoInstance ==
    [ exists |-> FALSE, session |-> 0, dbx |-> FALSE, close_called |-> FALSE ]

IdleInstances ==
    /\ instances = [ i \in Instances |->
                       IF i = 1 THEN [ NoInstance EXCEPT !.exists = TRUE,
                                                         !.session = 1 ]
                       ELSE NoInstance ]
    /\ closed_sessions = { }

\* an API call on an instance builds its SDK instances (_init_sdk)
instance_init_sdk ==
    \E i \in Instances :
        /\ instances[i].exists /\ ~ instances[i].dbx
        /\ instances' = [ instances EXCEPT ![i].dbx = TRUE ]
        /\ UNCHANGED closed_sessions
        /\ UNCHANGED nonInstanceVars

\* clone(session): a new instance on the given session, with clones of the
\* SDK instances if they are built (lines 329-341); session is
\* self._session when the argument is None (line 331)
cloned(original, session) ==
    [ exists |-> TRUE, session |-> session, dbx |-> original.dbx,
      close_called |-> FALSE ]

\* clone() without a session argument
instance_clone ==
    \E i, j \in Instances :
        /\ instances[i].exists /\ ~ instances[j].exists
        /\ \A k \in Instances : k < j => instances[k].exists
        /\ instances' = [ instances EXCEPT ![j] =
               cloned(instances[i], instances[i].session) ]
        /\ UNCHANGED closed_sessions
        /\ UNCHANGED nonInstanceVars

\* clone_with_new_session(): clone(session=create_session()), line 347
instance_clone_with_new_session ==
    \E i, j \in Instances :
        /\ instances[i].exists /\ ~ instances[j].exists
        /\ \A k \in Instances : k < j => instances[k].exists
        /\ instances' = [ instances EXCEPT ![j] = cloned(instances[i], j) ]
        /\ UNCHANGED closed_sessions
        /\ UNCHANGED nonInstanceVars

\* close(): if self._dbx: self._dbx.close() (lines 299-302); closing an SDK
\* instance closes the requests session it was built on
instance_close ==
    \E i \in Instances :
        /\ instances[i].exists
        /\ instances' = [ instances EXCEPT ![i].close_called = TRUE ]
        /\ closed_sessions' =
               IF instances[i].dbx
               THEN closed_sessions \cup { instances[i].session }
               ELSE closed_sessions
        /\ UNCHANGED nonInstanceVars

\* ---- desktop notifications: notify/main.py, cli.py notify_snooze ---------

\* the notification levels, lines 93-96
NONE == 100
ERROR == 40
SYNCISSUE == 30
FILECHANGE == 15

Levels == { NONE, ERROR, SYNCISSUE, FILECHANGE }

\* the minutes the command line accepts: click.IntRange(min=0)
SnoozeMinutes == 0 .. MaxMinutes

\* the minutes a caller of the property setter can pass: any float
SnoozedArgs == { -1 } \cup SnoozeMinutes

NoNotifierOp == [ op |-> "none", level |-> 0, sent |-> FALSE ]

\* __init__: self._snooze = 0.0, line 137; the level lives in the config
IdleNotifier ==
    /\ notifier = [ notify_level |-> FILECHANGE, snooze |-> 0 ]
    /\ clock = 0
    /\ lastSnoozed = [ at |-> 0, minutes |-> 0 ]
    /\ lastNotify = NoNotifierOp

\* the snoozed property, line 153: max(0.0, (self._snooze - time.time()) /
\* 60.0). The value is kept in sixtieths of a minute, so that the division
\* by 60.0 of the float loses nothing
snoozed(n, t) ==
    IF n.snooze - t > 0 THEN n.snooze - t ELSE 0

\* the snoozed setter, line 158: self._snooze = time.time() + minutes * 60.0
set_snoozed(n, t, minutes) ==
    [ n EXCEPT !.snooze = t + minutes * 60 ]

\* (variant: a running snooze silences every level)
ignore_every_level(n, t, level) ==
    snoozed(n, t) # 0

\* ignore = self.snoozed and level == FILECHANGE, line 180
ignore(n, t, level) ==
    snoozed(n, t) # 0 /\ level = FILECHANGE

\* whether notify hands the message to the desktop notifier, line 186
sends(n, t, level) ==
    level >= n.notify_level /\ ~ ignore(n, t, level)

\* time passes
notifier_tick ==
    /\ clock + 30 <= MaxClock
    /\ clock' = clock + 30
    /\ lastNotify' = [ NoNotifierOp EXCEPT !.op = "tick" ]
    /\ UNCHANGED << notifier, lastSnoozed >>
    /\ UNCHANGED nonNotifyVars

\* notify_level = level, lines 145-148
set_notify_level ==
    \E level \in Levels :
        /\ notifier' = [ notifier EXCEPT !.notify_level = level ]
        /\ lastNotify' = [ NoNotifierOp EXCEPT !.op = "notify_level" ]
        /\ UNCHANGED << clock, lastSnoozed >>
        /\ UNCHANGED nonNotifyVars

\* snoozed = minutes, lines 155-158
snoozed_assigned ==
    \E minutes \in SnoozedArgs :
        /\ notifier' = set_snoozed(notifier, clock, minutes)
        /\ lastSnoozed' = [ at |-> clock, minutes |-> minutes ]
        /\ lastNotify' = [ NoNotifierOp EXCEPT !.op = "snoozed" ]
        /\ UNCHANGED clock
        /\ UNCHANGED nonNotifyVars

\* maestral notify snooze MINUTES, cli.py lines 982-1000: the command
\* assigns minutes to notification_snooze of the daemon, which hands it to
\* the notifier's snoozed; without a running daemon nothing is set
notify_snooze ==
    \E minutes \in SnoozeMinutes, daemon_running \in BOOLEAN :
        /\ notifier' = IF daemon_running
                       THEN set_snoozed(notifier, clock, minutes)
                       ELSE notifier
        /\ lastSnoozed' = IF daemon_running
                          THEN [ at |-> clock, minutes |-> minutes ]
                          ELSE lastSnoozed
        /\ lastNotify' = [ NoNotifierOp EXCEPT !.op = "notify_snooze" ]
        /\ UNCHANGED clock
        /\ UNCHANGED nonNotifyVars

\* notify(title, message, level), lines 160-193
notify ==
    \E level \in Levels :
        /\ lastNotify' = [ op |-> "notify", level |-> level,
                           sent |-> sends(notifier, clock, level) ]
        /\ UNCHANGED << notifier, clock, lastSnoozed >>
        /\ UNCHANGED nonNotifyVars

\* ---- specifications ---------------------------------------------------

NextBatch ==
    \/ make_dir_batch_call
    \/ remove_batch_call
    \/ batch_submit_complete
    \/ batch_submit_async
    \/ batch_request_error
    \/ batch_check_in_progress
    \/ batch_check_complete
    \/ make_dir_batch_too_many_files
    \/ remove_batch_too_many_write_operations
    \/ batch_check_failed_other
    \/ batch_return

\* remove_batch alone
NextRemoveBatch ==
    \/ remove_batch_call
    \/ batch_submit_complete
    \/ batch_submit_async
    \/ batch_request_error
    \/ batch_check_in_progress
    \/ batch_check_complete
    \/ remove_batch_too_many_write_operations
    \/ batch_check_failed_other
    \/ batch_return

NextDownload ==
    \/ download_call
    \/ download_get_metadata
    \/ download_symlink
    \/ download_request_error
    \/ download_open_refused
    \/ download_open
    \/ download_write_chunk
    \/ download_stream_error
    \/ download_hash_mismatch
    \/ download_return

vars ==
    << batchVars, dlVars, upVars, pollVars, sync_event, queryVars, listVars,
       flattenVars, linkVars, threadVars, pollerVars, instanceVars,
       notifyVars >>

NextUpload ==
    \/ upload_call
    \/ upload_helper
    \/ upload_session_start
    \/ upload_session_append
    \/ upload_session_finish

NextQuery ==
    \/ get_metadata_call
    \/ get_metadata_found
    \/ get_metadata_error
    \/ create_shared_link_no_password
    \/ create_shared_link_call
    \/ create_shared_link_request

NextList ==
    \/ list_call
    \/ list_first_page
    \/ list_first_error
    \/ list_continue_page
    \/ list_continue_read_timeout
    \/ list_continue_error
    \/ list_return

NextFlatten == flatten_results_call

NextLink ==
    \/ get_auth_url
    \/ link_not_started
    \/ link_exchange_fails
    \/ link_lookup_fails
    \/ link_unknown_root_type
    \/ link_succeeds
    \/ unlink_not_linked
    \/ unlink_revoke_fails
    \/ unlink_succeeds
    \/ not_linked_call
    \/ get_metadata_request
    \/ get_account_info_returns
    \/ get_account_info_dbid_returns
    \/ account_request_fails
    \/ update_path_root_call

NextThreads ==
    \/ property_get
    \/ init_sdk_acquire
    \/ init_sdk_check
    \/ init_sdk_build_dbx_base
    \/ init_sdk_build_dbx
    \/ property_return
    \/ get_account_info_assigns

NextInstances ==
    \/ instance_init_sdk
    \/ instance_clone
    \/ instance_clone_with_new_session
    \/ instance_close

NextNotifier ==
    \/ notifier_tick
    \/ set_notify_level
    \/ snoozed_assigned
    \/ notify_snooze
    \/ notify

NextPollers ==
    \/ tick
    \/ poller_call
    \/ poller_longpoll_request
    \/ poller_longpoll_error
    \/ poller_longpoll_response
    \/ poller_record_backoff

NextPoll ==
    \/ tick
    \/ wait_for_remote_changes_bad_timeout
    \/ wait_for_remote_changes_call
    \/ longpoll_request
    \/ longpoll_error
    \/ longpoll_response
    \/ record_backoff

\* the state after construction; each specification runs one group of
\* operations on it
IdleTransfers ==
    InitBatch /\ IdleUpload /\ IdlePoll /\ sync_event = NoEvent

IdleQueries ==
    IdleQuery /\ IdleList /\ IdleFlatten /\ IdleThreads /\ IdlePollers
    /\ IdleInstances /\ IdleNotifier

Init_Batch == IdleTransfers /\ IdleDownload /\ IdleQueries /\ IdleLink

Init_Download == IdleTransfers /\ InitDownload /\ IdleQueries /\ IdleLink

Init_Upload == IdleTransfers /\ IdleDownload /\ IdleQueries /\ IdleLink

Init_Poll == IdleTransfers /\ IdleDownload /\ IdleQueries /\ IdleLink

Init_Pollers == IdleTransfers /\ IdleDownload /\ IdleQueries /\ IdleLink

Init_Instances == IdleTransfers /\ IdleDownload /\ IdleQueries /\ IdleLink

Init_Notifier == IdleTransfers /\ IdleDownload /\ IdleQueries /\ IdleLink

Init_Query == IdleTransfers /\ IdleDownload /\ IdleQueries /\ IdleLink

Init_List == IdleTransfers /\ IdleDownload /\ IdleQueries /\ IdleLink

Init_Flatten ==
    /\ IdleTransfers /\ IdleDownload /\ IdleQuery /\ IdleList /\ IdleLink
    /\ IdleThreads /\ IdlePollers /\ InitFlatten /\ IdleInstances
    /\ IdleNotifier

Init_Threads == IdleTransfers /\ IdleDownload /\ IdleQueries /\ InitLink

Init_Link == IdleTransfers /\ IdleDownload /\ IdleQueries /\ InitLink

SpecBatch == Init_Batch /\ [][NextBatch]_vars

SpecRemoveBatch == Init_Batch /\ [][NextRemoveBatch]_vars

SpecDownload == Init_Download /\ [][NextDownload]_vars

SpecUpload == Init_Upload /\ [][NextUpload]_vars

SpecPoll == Init_Poll /\ [][NextPoll]_vars

SpecPollers == Init_Pollers /\ [][NextPollers]_vars

SpecInstances == Init_Instances /\ [][NextInstances]_vars

SpecNotifier == Init_Notifier /\ [][NextNotifier]_vars

SpecQuery == Init_Query /\ [][NextQuery]_vars

SpecList == Init_List /\ [][NextList]_vars

SpecFlatten == Init_Flatten /\ [][NextFlatten]_vars

SpecLink == Init_Link /\ [][NextLink]_vars

SpecThreads == Init_Threads /\ [][NextThreads]_vars

\* ---- claims -------------------------------------------------------------

\* result[i] concerns inputs[i], for every i, and the lengths agree
InInputOrder(res, op, inputs) ==
    /\ Len(res) = Len(inputs)
    /\ \A i \in 1 .. Len(res) :
         /\ res[i].about = ItemPath(op, inputs[i])
         /\ res[i].dbx_path = ItemPath(op, inputs[i])

\* C1: a make_dir_batch(L) call that returns, the server having answered
\* only Complete, AsyncJob, InProgress and Failed(too_many_files), yields
\* exactly len(L) results and result[i] (metadata or error, with the path
\* the error is annotated with) concerns L[i].
C1_MakeDirBatchOrder ==
    ( /\ batchOut.status = "returned"
      /\ batchIn.op = "mkdir"
      /\ "other" \notin jobFailures )
    => InInputOrder(batchOut.res, "mkdir", batchIn.inputs)

\* C2: a remove_batch call that returns, whatever the server answered
\* (Complete, or AsyncJob then InProgress / Complete / Failed with any
\* reason), yields one result per input entry, in input order, each failure
\* annotated with the path of its input entry.
C2_RemoveBatchOrder ==
    ( /\ batchOut.status = "returned"
      /\ batchIn.op = "remove" )
    => InInputOrder(batchOut.res, "remove", batchIn.inputs)

\* C3: when the streamed bytes hash to a digest different from the server's
\* content_hash, the local file is deleted and DataCorruptionError is
\* raised; when a download call finally fails with DataCorruptionError,
\* nothing exists at local_path.
C3_CorruptDownloadRemoved ==
    [][ /\ ( dl.pc = "stream" /\ dl.written = dl.size /\ ~ dl.good )
           => ( /\ localFile'.kind = "absent"
                /\ dl'.lastErr = "DataCorruptionError" )
        /\ ( dlOut'.status = "raised" /\ dlOut'.err = "DataCorruptionError" )
           => localFile'.kind = "absent" ]_vars

\* C3 witness: a download over an existing file has failed with
\* DataCorruptionError after its last attempt wrote a body
C3_Witness ==
    /\ dlOut.status = "raised" /\ dlOut.err = "DataCorruptionError"
    /\ dl.tries = MAX_TRANSFER_RETRIES
    /\ dl.size > 0 /\ dl.written = dl.size
    /\ localBefore.kind = "file"

\* C4: after a download call that ended in an error, local_path holds no
\* partially written file (so a file that was there before has not been
\* truncated or replaced by partial content).
C4_DownloadAtomic ==
    dlOut.status = "raised"
    => ~ ( localFile.kind = "file" /\ ~ localFile.intact )


\* the requests of the log that the transport answered with `answer`
Answered(answer) == { i \in DOMAIN upLog : upLog[i].answer = answer }
NotOk == { i \in DOMAIN upLog : upLog[i].answer # "ok" }

\* bytes sent by the successful requests that precede request i
RECURSIVE Acked(_)
Acked(i) ==
    IF i <= 1 THEN 0
    ELSE Acked(i - 1)
         + (IF upLog[i - 1].answer = "ok" THEN upLog[i - 1].len ELSE 0)

C6_OffsetCorrectionCompletes ==
    ( /\ up.pc = "idle" /\ upOut.status # "none"
      /\ Cardinality(NotOk) = 1
      /\ \A i \in NotOk :
           upLog[i].kind = "append" /\ upLog[i].answer = "incorrect_offset" )
    => ( upOut.status = "returned" /\ upOut.size = up.st_size )

\* C7: the requests of an upload session are one successful session_start,
\* then session_append requests, then session_finish, all appends and
\* finishes with the session_id the start returned; every request carries a
\* cursor offset equal to the file position before its chunk was read,
\* which is the number of bytes sent by the preceding successful requests;
\* nothing follows the successful finish, and an upload that returns has
\* exactly one successful start and one successful finish.
C7_SessionProtocol ==
    /\ \A i \in DOMAIN upLog : upLog[i].kind # "upload" =>
         /\ upLog[i].offset = upLog[i].tell
         /\ upLog[i].tell = Acked(i)
         /\ upLog[i].kind \in { "append", "finish" } =>
              \E j \in 1 .. i - 1 :
                 /\ upLog[j].kind = "start" /\ upLog[j].answer = "ok"
                 /\ upLog[j].session_id = upLog[i].session_id
         /\ \A j \in 1 .. i - 1 :
              /\ upLog[j].kind = "finish" =>
                   upLog[i].kind = "finish" /\ upLog[j].answer # "ok"
              /\ upLog[j].kind = "append" => upLog[i].kind # "start"
              /\ upLog[j].kind = "start" /\ upLog[j].answer = "ok"
                   => upLog[i].kind # "start"
    /\ ( upOut.status = "returned" /\ ~ single_shot(up.st_size, up.chunk_size) )
       => /\ Cardinality({ i \in Answered("ok") : upLog[i].kind = "start" }) = 1
          /\ Cardinality({ i \in Answered("ok") : upLog[i].kind = "finish" }) = 1
          /\ upLog[Len(upLog)].kind = "finish"
          /\ upLog[Len(upLog)].answer = "ok"

\* C7 witness: a returned upload session with a successful append and an
\* append that was retried after a DataCorruption answer
C7_Witness ==
    /\ upOut.status = "returned"
    /\ \E i, j \in DOMAIN upLog :
         /\ i < j
         /\ upLog[i].kind = "append" /\ upLog[i].answer = "corrupt"
         /\ upLog[j].kind = "append" /\ upLog[j].answer = "ok"
         /\ upLog[j].offset > 0

\* C8: chunk_size is clamped to [100 000, 150 000 000]; a file of at most
\* that size is sent by single-shot upload requests of the whole file only
\* (one request when none is answered DataCorruption, one successful request
\* when the call returns) and no upload session is opened; a larger file is
\* sent by session requests only, none with more than chunk_size bytes.
C8_ClampAndPath ==
    up.st_size + up.arg > 0 =>
    /\ up.chunk_size >= 100000 /\ up.chunk_size <= 150000000
    /\ ( up.arg >= 100000 /\ up.arg <= 150000000 ) => up.chunk_size = up.arg
    /\ up.arg < 100000 => up.chunk_size = 100000
    /\ up.arg > 150000000 => up.chunk_size = 150000000
    /\ IF up.st_size <= up.chunk_size
       THEN /\ \A i \in DOMAIN upLog :
                 upLog[i].kind = "upload" /\ upLog[i].len = up.st_size
            /\ Answered("corrupt") = { } => Len(upLog) <= 1
            /\ upOut.status = "returned" => Cardinality(Answered("ok")) = 1
       ELSE \A i \in DOMAIN upLog :
                 /\ upLog[i].kind \in { "start", "append", "finish" }
                 /\ upLog[i].len <= up.chunk_size

\* C8 witness: a file of exactly the clamped chunk size (the argument was
\* below the minimum) has been uploaded with one single-shot request
C8_Witness ==
    /\ upOut.status = "returned"
    /\ up.arg = 50000 /\ up.chunk_size = 100000 /\ up.st_size = 100000
    /\ Len(upLog) = 1 /\ upLog[1].kind = "upload"

\* C9: a long poll that follows a response with a backoff of D seconds
\* is not sent before D + 5 seconds have passed since that response; after
\* a response without backoff the deadline is cleared and the next call
\* does not sleep.
C9_BackoffHonoured ==
    /\ ( poll.pc = "longpoll" /\ prevResp.time >= 0 /\ prevResp.backoff > 0 )
       => lastReq >= prevResp.time + prevResp.backoff + 5
    /\ ( poll.pc = "idle" /\ pollOut.status = "returned"
         /\ prevResp.backoff = 0 ) => backoff_until = 0
    /\ ( poll.pc = "sleep" /\ prevResp.backoff = 0 )
       => poll.time_to_backoff = 0

\* C9 witness: a long poll was sent after the call had to sleep for the
\* backoff of the preceding response
C9_Witness ==
    /\ poll.pc = "longpoll"
    /\ prevResp.time >= 0 /\ prevResp.backoff = MaxBackoff
    /\ poll.time_to_backoff > 0
    /\ lastReq = prevResp.time + prevResp.backoff + 5

\* C10: a call with a timeout outside [30, 480] fails with ValueError
\* without sleeping or sending a request and leaves the backoff deadline
\* unchanged; every timeout in [30, 480] is accepted.
C10_TimeoutValidated ==
    [][ ( poll.pc = "idle" /\ ( poll' # poll \/ pollOut' # pollOut ) )
        => IF poll'.timeout >= 30 /\ poll'.timeout <= 480
           THEN poll'.pc = "sleep" /\ pollOut'.status = "none"
           ELSE /\ pollOut'.status = "raised" /\ pollOut'.err = "ValueError"
                /\ poll'.pc = "idle"
                /\ UNCHANGED << backoff_until, lastReq, prevResp, now >>
      ]_vars

\* C10 witness: a call with timeout 481 was refused while a backoff
\* deadline was pending
C10_Witness ==
    /\ pollOut.status = "raised" /\ pollOut.err = "ValueError"
    /\ poll.timeout = 481
    /\ backoff_until > now

\* C20: when the delete job of a chunk is answered
\* Failed(too_many_write_operations), remove_batch raises SyncError
\* "Could not delete items": the call has ended (no further request, so
\* the chunk is not retried) and it delivers no list, not even the
\* entries of chunks that completed before.
C20_TooManyWriteOperationsRaises ==
    "too_many_write_operations" \in jobFailures
    => /\ batchOut.status = "raised"
       /\ batchOut.err = "SyncError: Could not delete items"
       /\ batchOut.res = << >>
       /\ stack = << >>

\* the failure arrives for the second chunk, after the first one completed
C20_Witness ==
    /\ "too_many_write_operations" \in jobFailures
    /\ batchIn.op = "remove"
    /\ batchOut.status = "raised"
    /\ batchOut.at >= 2
\* every request of a create_shared_link call carries a link password
\* exactly when the requested visibility is password
PasswordSentIffPasswordVisibility ==
    \A i \in 1 .. Len(queryReqs) :
        queryReqs[i].endpoint = "sharing_create_shared_link_with_settings"
        => /\ queryReqs[i].settings.requested_visibility = query.visibility
           /\ ( ~ not_password(queryReqs[i].settings.link_password)
                <=> query.visibility = "password" )

PasswordMissing ==
    /\ query.op = "create_shared_link"
    /\ query.visibility = "password"
    /\ not_password(query.password)

\* C11 (as stated): create_shared_link with visibility password and no (or
\* an empty) password fails with BadInputError and performs no network
\* I/O; for the other visibilities the password is dropped, so that a link
\* password is sent iff the visibility is password.
C11_PasswordRuleBadInput ==
    /\ PasswordMissing =>
         /\ queryOut.status = "raised"
         /\ queryOut.err = "BadInputError"
         /\ queryReqs = << >>
    /\ PasswordSentIffPasswordVisibility

\* C11 (amended): the call fails with a plain MaestralApiError titled
\* "Invalid shared link setting" and performs no network I/O; a link
\* password is sent iff the visibility is password.
C11_PasswordRule ==
    /\ PasswordMissing =>
         /\ queryOut.status = "raised"
         /\ queryOut.err = "MaestralApiError: Invalid shared link setting"
         /\ queryReqs = << >>
    /\ PasswordSentIffPasswordVisibility

\* a password-protected link was requested with an empty password and the
\* call has raised
C11_Witness ==
    /\ PasswordMissing
    /\ query.password = ""
    /\ queryOut.status = "raised"

\* the outcome of the lookup request of a finished get_metadata call
LookupError == queryReqs[1].error
GetMetadataDone ==
    /\ query.op = "get_metadata" /\ query.pc = "idle"
    /\ Len(queryReqs) = 1

\* C12 (as stated): get_metadata returns None exactly when the lookup
\* fails with NotFoundError; every other failure, PathError included,
\* propagates to the caller.
C12_NoneOnlyForNotFound ==
    GetMetadataDone =>
        /\ ( queryOut.status = "returned" /\ queryOut.value = None )
           <=> LookupError = "NotFoundError"
        /\ LookupError \notin { "none", "NotFoundError" }
           => ( queryOut.status = "raised" /\ queryOut.err = LookupError )

\* C12 (amended): get_metadata returns None exactly when the lookup fails
\* with NotFoundError or with PathError; every other failure propagates
\* to the caller.
C12_NoneForNotFoundOrPathError ==
    GetMetadataDone =>
        /\ ( queryOut.status = "returned" /\ queryOut.value = None )
           <=> LookupError \in { "NotFoundError", "PathError" }
        /\ LookupError \notin { "none", "NotFoundError", "PathError" }
           => ( queryOut.status = "raised" /\ queryOut.err = LookupError )

\* the lookup failed with PathError and the call returned None
C12_Witness ==
    /\ GetMetadataDone
    /\ LookupError = "PathError"
    /\ queryOut.status = "returned"
    /\ queryOut.value = None

\* the items of the pages one after the other, in page order
RECURSIVE ItemsInPageOrder(_)
ItemsInPageOrder(pages) ==
    IF pages = << >> THEN << >>
    ELSE Head(pages).items \o ItemsInPageOrder(Tail(pages))

\* `flat` is one result of the class of the pages, holding their items in
\* page order, the cursor of the last page, and has_more false
IsFlatteningOf(flat, pages) ==
    /\ \A i \in 1 .. Len(pages) : flat.cls = pages[i].cls
    /\ flat.items = ItemsInPageOrder(pages)
    /\ flat.cursor = pages[Len(pages)].cursor
    /\ flat.has_more = FALSE

\* C13: for every non-empty list of pages, flatten_results returns one
\* page of the same type whose entries are the concatenation of the pages'
\* entries in page order, whose cursor is the cursor of the last page, and
\* whose has_more is false.
C13_FlattenResults ==
    results_flattened # NoPage => IsFlatteningOf(results_flattened, results)

\* two non-empty pages with different cursors have been flattened
C13_Witness ==
    /\ Len(results) = 2
    /\ results[1].items = << 2 >> /\ results[2].items = << 1 >>
    /\ results[1].cursor # results[2].cursor
    /\ results[1].has_more
    /\ results_flattened # NoPage
    /\ results_flattened.items = << 2, 1 >>

\* C14: list_folder_iterator yields the first page and then, while the
\* page yielded last has has_more true, the page obtained by continuing
\* from the cursor of that page; it stops at the first page with has_more
\* false. list_folder returns the flattening of that sequence of pages.
C14_IteratorAndListFolder ==
    listing.op \in { "list_folder", "list_folder_iterator" } =>
        \* the first request lists the folder, all later ones continue
        \* from the cursor of the page yielded before, which had has_more
        /\ \A i \in 1 .. Len(listReqs) :
             IF i = 1
             THEN /\ listReqs[i].endpoint = "files_list_folder"
                  /\ listReqs[i].after = 0
             ELSE /\ listReqs[i].endpoint = "files_list_folder_continue"
                  /\ listReqs[i].after \in 1 .. Len(yielded)
                  /\ yielded[listReqs[i].after].has_more
                  /\ listReqs[i].cursor = yielded[listReqs[i].after].cursor
        \* one page is yielded per answered request
        /\ Len(yielded) =
             Cardinality({ i \in 1 .. Len(listReqs) :
                             listReqs[i].answer = "page" })
        \* only the last page can have has_more false
        /\ \A k \in 1 .. Len(yielded) - 1 : yielded[k].has_more
        \* the iteration ends after a page with has_more false
        /\ listOut.status = "returned" =>
             /\ yielded # << >>
             /\ ~ yielded[Len(yielded)].has_more
        /\ ( listOut.status = "returned" /\ listing.op = "list_folder" ) =>
             IsFlatteningOf(listOut.value, yielded)

\* list_folder has returned the flattening of three pages
C14_Witness ==
    /\ listing.op = "list_folder"
    /\ listOut.status = "returned"
    /\ Len(yielded) = 3
    /\ yielded[1].items = << 2 >> /\ yielded[3].items = << 1 >>
    /\ listOut.value.cursor = yielded[3].cursor
    /\ Len(listReqs) > 3

\* C15: if linking fails between the code exchange and the persistence of
\* the credential (invalid code, network error during the exchange or
\* during the root-namespace lookup), link reports the failure and no
\* credential has been stored: the CredentialStore is as it was, empty for
\* a client that was not linked. link returns 0 only when the credential
\* (account_id, refresh_token, Offline) has been persisted.
C15_FailedLinkStoresNothing ==
    lastOp.op = "link" =>
        /\ lastOp.outcome # "0" =>
             /\ client.cred_storage = lastOp.before.cred_storage
             /\ lastOp.before.cred_storage = NoCred => ~ linked(client)
        /\ lastOp.outcome = "0" =>
             /\ lastOp.res.refresh_token # NoToken
             /\ client.cred_storage =
                  [ account_id |-> lastOp.res.account_id,
                    token |-> lastOp.res.refresh_token,
                    token_type |-> "Offline" ]

\* on a client that was not linked, the root-namespace lookup of link
\* failed after the exchange
C15_Witness ==
    /\ lastOp.op = "link"
    /\ lastOp.outcome = "2"
    /\ Len(lastOp.requests) = 2
    /\ lastOp.res.refresh_token # NoToken
    /\ lastOp.before.cred_storage = NoCred
    /\ ~ linked(client)

\* C16: link must be preceded by get_auth_url: without a started auth
\* flow it fails with a usage error, sends no request and writes neither
\* to the CredentialStore nor to the StateStore. A successful link uses
\* the auth flow up, so a second link without a new get_auth_url fails
\* the same way.
C16_LinkNeedsAuthFlow ==
    lastOp.op = "link" =>
        /\ ~ lastOp.before.auth_flow =>
             /\ lastOp.outcome = "RuntimeError"
             /\ lastOp.requests = << >>
             /\ client.cred_storage = lastOp.before.cred_storage
             /\ client.state = lastOp.before.state
        /\ lastOp.outcome = "0" => ~ client.auth_flow

\* link was called again after a link that stored token 2 (the stores a
\* client starts on hold token 1 at most)
C16_Witness ==
    /\ lastOp.op = "link"
    /\ lastOp.outcome = "RuntimeError"
    /\ client.cred_storage.token = 2

\* C17: unlink deletes the credential from the CredentialStore, also when
\* the revocation fails with a network error.
C17_UnlinkDeletesCredential ==
    lastOp.op = "unlink" => ~ linked(client)

ApiOps == { "get_metadata", "get_account_info", "update_path_root" }

\* C18: after any sequence of get_auth_url, link, unlink and API
\* operations, an API operation sends a request only while a credential
\* is in the CredentialStore; on a client that is not linked it fails with
\* NotLinked without network I/O.
C18_RequestsOnlyWhenLinked ==
    lastOp.op \in ApiOps =>
        /\ \A i \in 1 .. Len(lastOp.requests) : lastOp.requests[i].linked
        /\ lastOp.before.cred_storage = NoCred =>
             /\ lastOp.outcome = "NotLinkedError"
             /\ lastOp.requests = << >>

\* C19: on a linked client whose SDK instances are not yet constructed,
\* however the threads that read dbx and dbx_base interleave, the
\* construction in _init_sdk runs once, every thread is handed the
\* instance that construction made (so all threads see the same pair),
\* and no thread is handed None or an error.
C19_InitOnce ==
    linked(client) =>
        /\ constructions <= 1
        /\ \A t \in Threads :
             /\ thr[t].pc # "raised"
             /\ thr[t].pc = "done" =>
                  /\ thr[t].got # NoHandle
                  /\ thr[t].got = attribute(client, thr[t].prop)
        /\ \A t, u \in Threads :
             ( /\ thr[t].pc = "done" /\ thr[u].pc = "done"
               /\ thr[t].prop = thr[u].prop )
             => thr[t].got = thr[u].got

\* one thread was handed dbx, another dbx_base, and a third, which had
\* found the handle missing, holds the lock after the construction
C19_Witness ==
    /\ linked(client)
    /\ constructions = 1
    /\ \E t, u, v \in Threads :
         /\ thr[t].pc = "done" /\ thr[t].prop = "dbx"
         /\ thr[u].pc = "done" /\ thr[u].prop = "dbx_base"
         /\ thr[v].pc = "locked"

\* namespace_id, is_team_space and the path-root entries of the state file
PathRootOf(c) ==
    << c.namespace_id, c.is_team_space, c.state.path_root_nsid,
       c.state.path_root_type, c.state.home_path >>

\* C21: the client never switches the path root on its own. When a
\* request fails with PathRootError, the call fails with that error and
\* namespace_id, is_team_space, the namespace-bound handle (the one the
\* request went through) and the path-root entries of the StateStore are
\* as before. They change only in update_path_root (link calls it) and,
\* while no namespace is known yet, when account info arrives.
C21_NoAutoSwitch ==
    /\ lastOp.outcome = "PathRootError" =>
         /\ PathRootOf(client) = PathRootOf(lastOp.before)
         /\ client.dbx.path_root = lastOp.requests[1].path_root
         /\ lastOp.before.dbx # NoHandle => client.dbx = lastOp.before.dbx
    /\ lastOp.op \in { "get_metadata", "unlink", "get_auth_url" } =>
         PathRootOf(client) = PathRootOf(lastOp.before)
    /\ lastOp.op = "get_metadata" /\ lastOp.before.dbx # NoHandle =>
         client.dbx = lastOp.before.dbx
    /\ lastOp.op = "get_account_info" =>
         /\ lastOp.before.dbx # NoHandle => client.dbx = lastOp.before.dbx
         /\ lastOp.before.namespace_id # "" =>
              PathRootOf(client) = PathRootOf(lastOp.before)
         /\ client.is_team_space = lastOp.before.is_team_space

\* a request through a handle pinned to the user's home namespace failed
\* with PathRootError
C21_Witness ==
    /\ lastOp.op = "get_metadata"
    /\ lastOp.outcome = "PathRootError"
    /\ lastOp.requests[1].path_root = "ns_home"
    /\ client.namespace_id = "ns_home"

\* C24: after unlink has returned, both SDK handles and the cached account
\* info are unset.
C24_UnlinkClearsMemory ==
    ( lastOp.op = "unlink" /\ lastOp.outcome = "returned" ) =>
        /\ client.dbx = NoHandle
        /\ client.dbx_base = NoHandle
        /\ client.cached_account_info = NoAccount

HandlesInitialised(c) == c.dbx # NoHandle /\ c.dbx_base # NoHandle

\* C26: with initialised handles, a known namespace_id is the path root
\* the namespace-bound handle carries, and the namespace-bound handle
\* equals the root-unaware handle only while namespace_id is unknown.
C26_HandleMatchesNamespace ==
    HandlesInitialised(client) =>
        /\ client.namespace_id # "" =>
             client.dbx.path_root = client.namespace_id
        /\ client.dbx = client.dbx_base => client.namespace_id = ""

\* C27: every recursive make_dir_batch call made on TooManyFiles runs on
\* exactly the failed chunk's paths with a batch size strictly smaller than
\* its caller's (for a starting batch_size in 1..1000), so the recursion
\* cannot go on forever.
C27_BatchSizeDecreases ==
    batchIn.batch_size \in 1..1000 =>
    \A i \in 2..Len(stack) :
        stack[i].op = "mkdir" =>
            /\ stack[i].inputs
                 = chunks(stack[i-1].inputs, stack[i-1].batch_size)[stack[i-1].ci]
            /\ stack[i].batch_size < stack[i-1].batch_size

\* C28: while an asynchronous batch job is being polled, the time slept before
\* a check is never zero: 500 ms before the first check and at least 100 ms
\* before every later one.
C28_CheckIntervalPositive ==
    ( stack # << >> /\ Top.pc = "check" ) => lastSleep >= 100

\* C29: during one download call, the retry attempts of the DataCorruption
\* policy included, sync_event.completed never decreases, it is the number of
\* chunks written so far while the body is streamed, and no other field of
\* the SyncEvent is written.
C29_CompletedMonotonic ==
    [][ dl.pc # "idle" =>
          /\ sync_event'.completed >= sync_event.completed
          /\ sync_event'.size = sync_event.size
          /\ sync_event'.present = sync_event.present
          /\ ( sync_event.present /\ dl'.pc = "stream" /\ dl'.written > 0 ) =>
                 sync_event'.completed = dl'.written ]_vars

\* C22: after a failed request of an upload session the file position has
\* been repositioned: to the offset the server reported as correct when an
\* append or finish was rejected for its offset, to the offset held before
\* the chunk was read after every other failure of append, finish or start.
C22_RepositionedAfterFailure ==
    upLog # << >> =>
        LET r == upLog[Len(upLog)] IN
        /\ ( r.kind \in { "append", "finish" }
             /\ r.answer = "incorrect_offset" ) => up.fpos = r.correct_offset
        /\ ( r.kind \in { "append", "finish" }
             /\ r.answer \in { "corrupt", "other" } ) => up.fpos = r.tell
        /\ ( r.kind = "start" /\ r.answer # "ok" ) => up.fpos = r.tell

\* C30: after a successful upload, single-shot or chunked, the event's
\* completed equals the size of the uploaded file, which is the event's size;
\* at any other time of an upload, a failed one included, completed lies
\* between 0 and that size.
C30_CompletedAfterUpload ==
    sync_event.present =>
        /\ upOut.status = "returned" =>
             /\ sync_event.completed = sync_event.size
             /\ sync_event.completed = up.st_size
        /\ 0 <= sync_event.completed
        /\ sync_event.completed <= sync_event.size

C30_Witness ==
    /\ sync_event.present
    /\ upOut.status = "returned"
    /\ Len(upLog) >= 3
    /\ upLog[Len(upLog)].kind = "finish"
    /\ sync_event.completed = 250000

C30_WitnessFailed ==
    /\ sync_event.present
    /\ upOut.status = "raised"
    /\ sync_event.completed > 0
    /\ sync_event.completed < sync_event.size

\* C23: in list_folder_iterator and in list_remote_changes_iterator a
\* continue request that times out is sent again with the same cursor, and
\* the timeout reaches the caller only after MAX_LIST_FOLDER_RETRIES
\* consecutive requests with that cursor have timed out; every continue
\* request carries the cursor of the page yielded last, so no page is
\* skipped or yielded twice.
C23_ContinueRetriedOnTimeout ==
    listing.op \in { "list_folder_iterator",
                     "list_remote_changes_iterator" } =>
        /\ \A i \in 2 .. Len(listReqs) :
             /\ listReqs[i].after \in 1 .. Len(yielded)
             /\ listReqs[i].cursor = yielded[listReqs[i].after].cursor
             /\ listReqs[i].answer = "page" =>
                  listReqs[i].after = listReqs[i-1].after
                      + (IF listReqs[i-1].answer = "page" THEN 1 ELSE 0)
        /\ ( /\ listOut.status = "raised"
             /\ listReqs[Len(listReqs)].answer = "read_timeout" ) =>
               /\ Len(listReqs) > MAX_LIST_FOLDER_RETRIES
               /\ \A i \in Len(listReqs) - MAX_LIST_FOLDER_RETRIES + 1
                             .. Len(listReqs) :
                    /\ listReqs[i].answer = "read_timeout"
                    /\ listReqs[i].endpoint = "files_list_folder_continue"
                    /\ listReqs[i].cursor = listReqs[Len(listReqs)].cursor

\* C25: every assignment to namespace_id, is_team_space, the backoff
\* deadline or the cached account info is made by a thread that holds the
\* client's lock, the one that guards _init_sdk.
C25_WritesUnderLock ==
    lastWrite.by # NoThread => lastWrite.holder = lastWrite.by

\* the requests of a given kind in the log of the running upload
RequestsOfKind(kind) == { i \in DOMAIN upLog : upLog[i].kind = kind }

\* C34: a chunked upload of a file of size s with clamped chunk size c < s
\* in which no request failed has sent one session_start, ceil(s/c) - 2
\* session_append and one session_finish request; the chunks are
\* consecutive byte ranges that cover [0, s) once, in file order, and the
\* chunk sent with session_finish is 1 to c bytes long.
C34_ChunkedRequestCount ==
    ( /\ upOut.status = "returned"
      /\ up.st_size > up.chunk_size
      /\ \A i \in DOMAIN upLog : upLog[i].answer = "ok" )
    => /\ Cardinality(RequestsOfKind("start")) = 1
       /\ Cardinality(RequestsOfKind("append"))
            = ChunkCount(up.st_size, up.chunk_size) - 2
       /\ Cardinality(RequestsOfKind("finish")) = 1
       /\ Cardinality(RequestsOfKind("upload")) = 0
       /\ upLog[1].kind = "start" /\ upLog[1].tell = 0
       /\ \A i \in 2 .. Len(upLog) :
            upLog[i].tell = upLog[i-1].tell + upLog[i-1].len
       /\ upLog[Len(upLog)].kind = "finish"
       /\ upLog[Len(upLog)].tell + upLog[Len(upLog)].len = up.st_size
       /\ upLog[Len(upLog)].len \in 1 .. up.chunk_size
       /\ \A i \in DOMAIN upLog : upLog[i].len \in 1 .. up.chunk_size

\* a file of exactly three chunks went up in three requests, the last chunk
\* a full one
C34_Witness ==
    /\ upOut.status = "returned"
    /\ up.st_size = 300000 /\ up.chunk_size = 100000
    /\ Len(upLog) = 3
    /\ \A i \in DOMAIN upLog : upLog[i].answer = "ok"
    /\ upLog[2].kind = "append"
    /\ upLog[3].kind = "finish" /\ upLog[3].len = 100000

\* C35: a session_start, session_append or session_finish request that was
\* answered with DataCorruption and is tried again is followed by a request
\* of the same kind for the same byte range with the same cursor offset (and
\* session); a chunk the server acknowledged is never sent again.
C35_RetrySendsSameRange ==
    /\ \A i \in 1 .. Len(upLog) - 1 :
         ( upLog[i].answer = "corrupt" /\ upLog[i].kind # "upload" ) =>
             /\ upLog[i+1].kind = upLog[i].kind
             /\ upLog[i+1].tell = upLog[i].tell
             /\ upLog[i+1].len = upLog[i].len
             /\ upLog[i+1].offset = upLog[i].offset
             /\ upLog[i].kind # "start" =>
                  upLog[i+1].session_id = upLog[i].session_id
    /\ \A i, j \in DOMAIN upLog :
         ( i < j /\ upLog[i].answer = "ok" /\ upLog[i].kind # "upload" ) =>
             upLog[j].tell >= upLog[i].tell + upLog[i].len

\* a finish and, before it, an append were each tried again after a
\* DataCorruption answer, and the upload returned
C35_Witness ==
    /\ upOut.status = "returned"
    /\ \E i, j \in DOMAIN upLog :
         /\ i + 1 < j
         /\ upLog[i].kind = "append" /\ upLog[i].answer = "corrupt"
         /\ upLog[i+1].kind = "append" /\ upLog[i+1].answer = "ok"
         /\ upLog[j].kind = "finish" /\ upLog[j].answer = "corrupt"
         /\ upLog[j+1].kind = "finish" /\ upLog[j+1].answer = "ok"

\* C32: the expires value create_shared_link sends is normalised to UTC: for
\* a datetime with a non-zero UTC offset the value sent is the same instant
\* expressed in UTC; a naive or UTC datetime (and None) is sent as given.
C32_ExpiresSentInUtc ==
    \A i \in DOMAIN queryReqs :
        queryReqs[i].endpoint = "sharing_create_shared_link_with_settings" =>
            queryReqs[i].settings.expires =
                IF query.expires # NoExpires /\ query.expires.aware
                   /\ query.expires.utcoffset # 0
                THEN astimezone_utc(query.expires)
                ELSE query.expires

\* C36: when link is called on a client without a stored credential (a
\* fresh one, or one that was unlinked) and the code exchange succeeds, the
\* root-namespace lookup goes out with the refresh token the exchange
\* returned, and the handles the client holds afterwards carry that token.
C36_LinkUsesNewToken ==
    ( /\ lastOp.op = "link"
      /\ ~ linked(lastOp.before)
      /\ Len(lastOp.requests) >= 2 ) =>
        /\ lastOp.requests[2].token = lastOp.res.refresh_token
        /\ client.dbx_base.token = lastOp.res.refresh_token
        /\ client.dbx.token = lastOp.res.refresh_token

\* C38: update_path_root is all-or-nothing. When it fails, namespace_id,
\* is_team_space, the path-root entries of the state file and the path root
\* of the namespace handle are what they were before the call; when it
\* returns, the path root of the namespace handle, namespace_id and the
\* stored path_root_nsid are the root namespace of the account's root_info,
\* and the stored home_path is empty exactly for a user root.
C38_UpdatePathRootAllOrNothing ==
    lastOp.op = "update_path_root" =>
        /\ lastOp.outcome # "returned" =>
             /\ PathRootOf(client) = PathRootOf(lastOp.before)
             /\ lastOp.before.dbx # NoHandle =>
                  client.dbx = lastOp.before.dbx
             /\ ( lastOp.before.dbx = NoHandle /\ client.dbx # NoHandle ) =>
                  client.dbx.path_root = lastOp.before.namespace_id
        /\ lastOp.outcome = "returned" =>
             LET root_info == client.cached_account_info.root_info IN
             /\ client.dbx.path_root = root_info.root_namespace_id
             /\ client.namespace_id = root_info.root_namespace_id
             /\ client.state.path_root_nsid = root_info.root_namespace_id
             /\ client.is_team_space = (root_info.kind = "team")
             /\ client.state.home_path = "" <=> root_info.kind = "user"

\* C37: get_account_info(dbid) for a given account id leaves what the
\* client knows about the linked account as it was: namespace_id, the
\* entries of the state file and the cached account info.
C37_OtherAccountChangesNothing ==
    lastOp.op = "get_account_info(dbid)" =>
        /\ client.namespace_id = lastOp.before.namespace_id
        /\ client.state = lastOp.before.state
        /\ client.cached_account_info = lastOp.before.cached_account_info

\* C39: with two threads in wait_for_remote_changes on one client, no long
\* poll is sent by either thread before the deadline requested by a response
\* already received (its arrival plus its backoff plus five seconds), and a
\* backoff deadline that is still running is never cleared.
C39_ConcurrentBackoffHonoured ==
    [][ /\ \A t \in Pollers :
             ( /\ pollers[t].pc = "sleep" /\ pollers'[t].pc = "longpoll"
               /\ prevResp.backoff > 0 )
             => now >= RequestedDeadline(prevResp)
        /\ backoff_until > now => backoff_until' # 0
      ]_vars

\* C31: each client instance owns its session. Closing one instance never
\* closes the session of another instance that was not closed itself, and
\* an instance on which close was called has had its own session closed.
C31_SessionOwnedExclusively ==
    \A i \in Instances :
        instances[i].exists =>
            /\ ~ instances[i].close_called =>
                 instances[i].session \notin closed_sessions
            /\ instances[i].close_called =>
                 instances[i].session \in closed_sessions

\* the snooze period set by the last assignment of m minutes to snoozed is
\* running: fewer than m minutes have passed since
SnoozeRunning ==
    clock < lastSnoozed.at + 60 * lastSnoozed.minutes

\* C33: notify sends the message iff its level is at least notify_level and
\* not (the snooze period is running and the level is FILECHANGE); snoozed
\* is positive exactly while the period set last is running, and 0 otherwise
\* (so from the moment it is set to 0).
C33_NotifyIffLevelAndNotSnoozed ==
    /\ lastNotify.op = "notify" =>
           ( lastNotify.sent <=>
               /\ lastNotify.level >= notifier.notify_level
               /\ ~ (SnoozeRunning /\ lastNotify.level = FILECHANGE) )
    /\ snoozed(notifier, clock) > 0 <=> SnoozeRunning
    /\ ~ SnoozeRunning => snoozed(notifier, clock) = 0

\* a file change is not shown during the snooze period, half a minute or
\* more after it began, although the level lets file changes through
C33_Witness ==
    /\ lastNotify = [ op |-> "notify", level |-> FILECHANGE, sent |-> FALSE ]
    /\ notifier.notify_level = FILECHANGE
    /\ SnoozeRunning /\ clock > lastSnoozed.at

\* an error is shown during the snooze period
C33_WitnessError ==
    /\ lastNotify = [ op |-> "notify", level |-> ERROR, sent |-> TRUE ]
    /\ SnoozeRunning

\* a file change is shown right after snoozed was set to 0 during a period
C33_WitnessReenabled ==
    /\ lastNotify = [ op |-> "notify", level |-> FILECHANGE, sent |-> TRUE ]
    /\ lastSnoozed.minutes = 0 /\ lastSnoozed.at = clock /\ clock > 0

====
